---- MODULE Spec2Model ----
(***************************************************************************)
(* Moltslack coordination engine: AuthService, AgentService,               *)
(* ChannelService, MessageService, PresenceService and RelayClient,        *)
(* modelled as one state machine.  Every handler is one atomic action      *)
(* (the engine is a single-threaded event loop).                           *)
(***************************************************************************)
EXTENDS Bags, Integers, Sequences, FiniteSets, TLC

VARIABLES
  now,              \* Date.now(), milliseconds
  lastOp,           \* outcome of the last operation: [op, result]
  channels,         \* ChannelService.channels    : id -> Channel
  nameIndex,        \* ChannelService.nameIndex   : name -> id
  memberships,      \* ChannelService.memberships : id -> set of agent ids
  nextChannelId,    \* next fresh channel id (uuid())
  connections,      \* RelayClient.connections    : agentId -> socket
  wsState,          \* readyState of every socket (none: no such object)
  subscriptions,    \* RelayClient.subscriptions  : channelId -> set of agent ids
  relayCalls,       \* RelayClient send methods invoked by the last operation
  wire,             \* bag of frames written to sockets by the last operation
  messages,         \* MessageService.messages        : id -> Message
  channelMessages,  \* MessageService.channelMessages : channelId -> seq of ids
  threadMessages,   \* MessageService.threadMessages  : threadId -> seq of ids
  presences,        \* PresenceService.presences  : agentId -> Presence
  nextDue,          \* time at which the heartbeat checker interval fires next
  quiet,            \* time of an agent's last presence call, kept while that call
                    \* is its connect() or a setTyping(.., true); NoTime otherwise
  typingTimers,     \* PresenceService.typingTimers : key -> timer handle
  timeouts,         \* setTimeout callbacks of setTyping that are still pending
  agents,           \* AgentService.agents        : id -> Agent
  issued,           \* every token string handed out so far, per agent
  permQuery,        \* arguments and result of the last AuthService query
  pendingAcks,      \* RelayClient.pendingAcks : correlationId -> target agent
  ackTimers,        \* armed setTimeout handles      : correlationId -> due time
  ackCalls,         \* per sendWithAck call: what was handled for it, what it settled to
  nextAckId         \* next fresh correlation id (uuid())

chanVars  == <<channels, nameIndex, memberships, nextChannelId>>
relayVars == <<connections, wsState, subscriptions>>
msgVars   == <<messages, channelMessages, threadMessages>>
presVars  == <<presences, nextDue, quiet, typingTimers, timeouts>>
authVars  == <<agents, issued>>
outVars   == <<relayCalls, wire>>
ackVars   == <<pendingAcks, ackTimers, ackCalls, nextAckId>>
vars == <<now, lastOp, chanVars, relayVars, outVars, msgVars, presVars, authVars,
          permQuery, ackVars>>

None == "none"      \* undefined / null of a string-valued field
NoTime == -1        \* undefined of a timestamp field

\* ---------------------------------------------------------------- bounds
\* The specifications below guard the environment with these; the handlers
\* themselves are unbounded.
MaxChannels  == 3     \* channel ids ever allocated (two of them are defaults)
MaxRules     == 4     \* access rules held by the whole registry
MaxMsgs      == 2     \* messages ever stored
MaxSendRules == 3     \* access rules held by the registry where messages are sent
MaxTicks     == 10    \* clock ticks of the presence model
MaxPerms     == 2     \* length of a permission list given to checkPermissions
MaxIssued    == 3     \* tokens ever generated
MaxAuthTicks == 3     \* clock ticks of the token model
MaxAckCalls  == 2     \* sendWithAck calls ever made
MaxAckTicks  == 3     \* clock ticks while acks are awaited
MaxReadTicks == 1     \* clock ticks while messages are sent and read
MaxTypingTicks == 31  \* clock ticks while typing indicators are set
MaxLiveTicks == 12    \* clock ticks before the clock of the fair checker is rebased
MaxOnlineTicks == 17  \* clock ticks while registered agents connect and time out

\* ------------------------------------------------------------- universes
Agents       == {"a1", "a2"}
channelIdOf(n) == "ch-" \o ToString(n)       \* `ch-${uuid()}`
messageIdOf(n) == "msg-" \o ToString(n)      \* `msg-${uuid()}`
ChannelIds   == {channelIdOf(n) : n \in 1 .. MaxChannels}
MessageIds   == {messageIdOf(n) : n \in 1 .. MaxMsgs}
ChannelNames == {"general", "announcements", "ops", "dev"}
ChannelTypes == {"public", "private", "direct", "broadcast"}
Levels       == {"read", "write", "admin"}
Sockets      == {1, 2}        \* WebSocket objects alive at the same time

Result(op, res) == [op |-> op, result |-> res]

\* an operation that calls no RelayClient send method
Silent == relayCalls' = {} /\ wire' = EmptyBag

\* =========================================================================
\* ChannelService
\* =========================================================================

\* levels.indexOf(level) for levels = [READ, WRITE, ADMIN]
levelIndex(level) ==
  CASE level = "read"  -> 0
    [] level = "write" -> 1
    [] level = "admin" -> 2
    [] OTHER           -> -1

accessLevelSatisfies(actual, required) ==
  levelIndex(actual) >= levelIndex(required)

matchRule(rule, agentId) ==
  IF rule.principalType = "all" THEN TRUE
  ELSE IF rule.principalType = "agent" /\ rule.principal = agentId THEN TRUE
  ELSE FALSE

createDefaultAccessRules(type) ==
  CASE type = "public"    -> << [principal |-> "*", principalType |-> "all", level |-> "write"] >>
    [] type = "private"   -> << >>
    [] type = "broadcast" -> << [principal |-> "*", principalType |-> "all", level |-> "read"] >>
    [] type = "direct"    -> << >>
    [] OTHER              -> << >>

\* a rule scan that takes the best matching rule instead of the first
scanRulesBestMatch(rules, i, agentId, requiredLevel) ==
  LET matching == {k \in i .. Len(rules) : matchRule(rules[k], agentId)}
  IN  IF matching = {} THEN "nomatch"
      ELSE IF \E k \in matching : accessLevelSatisfies(rules[k].level, requiredLevel)
           THEN "grant" ELSE "deny"

\* the for-loop of checkAccess: the verdict of the first matching rule
RECURSIVE scanRules(_, _, _, _)
scanRules(rules, i, agentId, requiredLevel) ==
  IF i > Len(rules) THEN "nomatch"
  ELSE IF matchRule(rules[i], agentId)
       THEN (IF accessLevelSatisfies(rules[i].level, requiredLevel)
             THEN "grant" ELSE "deny")
       ELSE scanRules(rules, i + 1, agentId, requiredLevel)

checkAccess(channelId, agentId, requiredLevel) ==
  IF channelId \notin DOMAIN channels THEN FALSE
  ELSE LET channel == channels[channelId]
           verdict == scanRules(channel.accessRules, 1, agentId, requiredLevel)
       IN  IF verdict # "nomatch" THEN verdict = "grant"
           ELSE IF channel.defaultAccess # None
                THEN accessLevelSatisfies(channel.defaultAccess, requiredLevel)
                ELSE FALSE

\* a channel object whose defaultAccess is READ for every type, private included
newChannelDefaultRead(name, type, createdBy) ==
  [ name          |-> name,
    type          |-> type,
    accessRules   |-> createDefaultAccessRules(type),
    defaultAccess |-> "read",
    metadata      |-> [displayName |-> name, isArchived |-> FALSE],
    createdBy     |-> createdBy,
    memberCount   |-> 0 ]

\* a channel object that counts its creator as a member from the start
newChannelCountingCreator(name, type, createdBy) ==
  [ name          |-> name,
    type          |-> type,
    accessRules   |-> createDefaultAccessRules(type),
    defaultAccess |-> IF type = "private" THEN None ELSE "read",
    metadata      |-> [displayName |-> name, isArchived |-> FALSE],
    createdBy     |-> createdBy,
    memberCount   |-> 1 ]

\* the Channel object built by create()
newChannel(name, type, createdBy) ==
  [ name          |-> name,
    type          |-> type,
    accessRules   |-> createDefaultAccessRules(type),
    defaultAccess |-> IF type = "private" THEN None ELSE "read",
    metadata      |-> [displayName |-> name, isArchived |-> FALSE],
    createdBy     |-> createdBy,
    memberCount   |-> 0 ]

\* a duplicate check that never finds the name
nameTakenNever(index, name) == FALSE

\* this.nameIndex.has(input.name)
nameTaken(index, name) == name \in DOMAIN index

Channel_create(name, type, createdBy) ==
  /\ IF nameTaken(nameIndex, name)
     THEN /\ lastOp' = Result("create", "AlreadyExists")
          /\ UNCHANGED chanVars
     ELSE /\ LET id == channelIdOf(nextChannelId)
             IN  /\ channels' = channels @@ (id :> newChannel(name, type, createdBy))
                 /\ nameIndex' = nameIndex @@ (name :> id)
                 /\ memberships' = memberships @@ (id :> {})
          /\ nextChannelId' = nextChannelId + 1
          /\ lastOp' = Result("create", "ok")
  /\ Silent
  /\ UNCHANGED <<now, relayVars, msgVars, presVars, authVars, permQuery, ackVars>>

\* number of access rules held by the whole registry
TotalRules ==
  Cardinality(UNION {{<<c, i>> : i \in 1 .. Len(channels[c].accessRules)} : c \in DOMAIN channels})

Channel_addAccessRule(channelId, rule) ==
  /\ IF channelId \notin DOMAIN channels
     THEN /\ lastOp' = Result("addAccessRule", "false")
          /\ UNCHANGED chanVars
     ELSE /\ channels' = [channels EXCEPT ![channelId].accessRules = Append(@, rule)]
          /\ lastOp' = Result("addAccessRule", "true")
          /\ UNCHANGED <<nameIndex, memberships, nextChannelId>>
  /\ Silent
  /\ UNCHANGED <<now, relayVars, msgVars, presVars, authVars, permQuery, ackVars>>

\* update(): the given metadata fields replace the stored ones
Channel_update(channelId, updates) ==
  /\ IF channelId \notin DOMAIN channels
     THEN /\ lastOp' = Result("update", "false")
          /\ UNCHANGED chanVars
     ELSE /\ channels' = [channels EXCEPT ![channelId].metadata = updates @@ @]
          /\ lastOp' = Result("update", "true")
          /\ UNCHANGED <<nameIndex, memberships, nextChannelId>>
  /\ Silent
  /\ UNCHANGED <<now, relayVars, msgVars, presVars, authVars, permQuery, ackVars>>

\* a delete that leaves the name index alone
keepName(index, name) == index

\* this.nameIndex.delete(channel.name)
purgeName(index, name) == [n \in DOMAIN index \ {name} |-> index[n]]

Channel_delete(channelId) ==
  /\ IF channelId \notin DOMAIN channels
     THEN /\ lastOp' = Result("deleteChannel", "false")
          /\ UNCHANGED chanVars
     ELSE /\ nameIndex' = purgeName(nameIndex, channels[channelId].name)
          /\ memberships' = [c \in DOMAIN memberships \ {channelId} |-> memberships[c]]
          /\ channels' = [c \in DOMAIN channels \ {channelId} |-> channels[c]]
          /\ lastOp' = Result("deleteChannel", "true")
          /\ UNCHANGED nextChannelId
  /\ Silent
  /\ UNCHANGED <<now, relayVars, msgVars, presVars, authVars, permQuery, ackVars>>

\* ChannelService.getById, getByName and getMembers
channelGetById(chs, id) == IF id \in DOMAIN chs THEN {chs[id]} ELSE {}

getByName(chs, index, name) ==
  IF name \in DOMAIN index THEN channelGetById(chs, index[name]) ELSE {}

getMembers(mems, channelId) == IF channelId \in DOMAIN mems THEN mems[channelId] ELSE {}

\* ChannelService constructor: createDefaultChannels()
InitChannels ==
  /\ channels = (channelIdOf(1) :> newChannel("general", "public", "system"))
                @@ (channelIdOf(2) :> newChannel("announcements", "broadcast", "system"))
  /\ nameIndex = ("general" :> channelIdOf(1)) @@ ("announcements" :> channelIdOf(2))
  /\ memberships = (channelIdOf(1) :> {}) @@ (channelIdOf(2) :> {})
  /\ nextChannelId = 3

\* =========================================================================
\* RelayClient: pure parts (the send methods return the frames they write)
\* =========================================================================

\* sendToAgent that does not look at the socket's readyState
sendToAgentAnyState(conns, ws, agentId, frame) ==
  IF agentId \in DOMAIN conns
  THEN SetToBag({[to |-> agentId, socket |-> conns[agentId], frame |-> frame]})
  ELSE EmptyBag

\* sendToAgent: writes only to a registered socket whose readyState is OPEN
sendToAgent(conns, ws, agentId, frame) ==
  IF agentId \in DOMAIN conns /\ ws[conns[agentId]] = "open"
  THEN SetToBag({[to |-> agentId, socket |-> conns[agentId], frame |-> frame]})
  ELSE EmptyBag

\* a channel broadcast that writes to every registered agent
broadcastToChannelEveryone(conns, ws, subs, channelId, frame) ==
  BagUnion({sendToAgent(conns, ws, agentId, frame) : agentId \in DOMAIN conns})

broadcastToChannel(conns, ws, subs, channelId, frame) ==
  IF channelId \notin DOMAIN subs THEN EmptyBag
  ELSE BagUnion({sendToAgent(conns, ws, agentId, frame) : agentId \in subs[channelId]})

broadcast(conns, ws, frame) ==
  BagUnion({sendToAgent(conns, ws, agentId, frame) : agentId \in DOMAIN conns})

subscribeToChannel(subs, agentId, channelId) ==
  IF channelId \in DOMAIN subs
  THEN [subs EXCEPT ![channelId] = @ \cup {agentId}]
  ELSE subs @@ (channelId :> {agentId})

unsubscribeFromChannel(subs, agentId, channelId) ==
  IF channelId \in DOMAIN subs
  THEN [subs EXCEPT ![channelId] = @ \ {agentId}]
  ELSE subs

Call(method, target, frame) == [method |-> method, target |-> target, frame |-> frame]

\* RelayClient constructor: no connection, no subscription
InitRelay ==
  /\ connections = << >>
  /\ wsState = [s \in Sockets |-> "none"]
  /\ subscriptions = << >>
  /\ relayCalls = {}
  /\ wire = EmptyBag

\* RelayClient constructor: nothing pending, no timer armed
InitAcks ==
  /\ pendingAcks = << >>
  /\ ackTimers = << >>
  /\ ackCalls = << >>
  /\ nextAckId = 1

\* =========================================================================
\* ChannelService.join / leave (they notify the relay)
\* =========================================================================

\* a join that admits everybody
joinAllowedAlways(channelId, agentId) == TRUE

\* the access test of join()
joinAllowed(channelId, agentId) == checkAccess(channelId, agentId, "read")

Channel_join(channelId, agentId) ==
  /\ IF channelId \notin DOMAIN channels
     THEN /\ lastOp' = Result("join", "false")
          /\ UNCHANGED <<chanVars, subscriptions>>
     ELSE IF ~joinAllowed(channelId, agentId)
     THEN /\ lastOp' = Result("join", "PermissionDenied")
          /\ UNCHANGED <<chanVars, subscriptions>>
     ELSE IF channelId \notin DOMAIN memberships
     THEN /\ lastOp' = Result("join", "false")
          /\ UNCHANGED <<chanVars, subscriptions>>
     ELSE /\ lastOp' = Result("join", "true")
          /\ IF agentId \notin memberships[channelId]
             THEN /\ memberships' = [memberships EXCEPT ![channelId] = @ \cup {agentId}]
                  /\ channels' = [channels EXCEPT ![channelId].memberCount =
                                    Cardinality(memberships'[channelId])]
                  /\ subscriptions' = subscribeToChannel(subscriptions, agentId, channelId)
             ELSE UNCHANGED <<channels, memberships, subscriptions>>
          /\ UNCHANGED <<nameIndex, nextChannelId>>
  /\ Silent
  /\ UNCHANGED <<now, connections, wsState, msgVars, presVars, authVars, permQuery, ackVars>>

\* a leave that keeps the agent in the Set
keepMember(members, agentId) == members

\* members.delete(agentId)
removeMember(members, agentId) == members \ {agentId}

Channel_leave(channelId, agentId) ==
  /\ IF channelId \notin DOMAIN channels \/ channelId \notin DOMAIN memberships
     THEN /\ lastOp' = Result("leave", "false")
          /\ UNCHANGED <<chanVars, subscriptions>>
     ELSE /\ lastOp' = Result("leave", "true")
          /\ IF agentId \in memberships[channelId]
             THEN /\ memberships' = [memberships EXCEPT ![channelId] = removeMember(@, agentId)]
                  /\ channels' = [channels EXCEPT ![channelId].memberCount =
                                    Cardinality(memberships'[channelId])]
                  /\ subscriptions' = unsubscribeFromChannel(subscriptions, agentId, channelId)
             ELSE UNCHANGED <<channels, memberships, subscriptions>>
          /\ UNCHANGED <<nameIndex, nextChannelId>>
  /\ Silent
  /\ UNCHANGED <<now, connections, wsState, msgVars, presVars, authVars, permQuery, ackVars>>

\* =========================================================================
\* MessageService
\* =========================================================================

\* Texts are sequences of characters.  \w of the mention regex: every
\* character of the model's alphabet except these.
NonWord == {"@", " "}

RECURSIVE wordEnd(_, _)
wordEnd(text, i) ==
  IF i > Len(text) \/ text[i] \in NonWord THEN i ELSE wordEnd(text, i + 1)

\* /@(\w+)/g scanned left to right; startIndex is 0-based, length covers "@name"
RECURSIVE scanMentions(_, _)
scanMentions(text, i) ==
  IF i > Len(text) THEN << >>
  ELSE IF text[i] = "@" /\ i + 1 <= Len(text) /\ text[i + 1] \notin NonWord
       THEN LET e    == wordEnd(text, i + 1)
                name == SubSeq(text, i + 1, e - 1)
            IN  << [type       |-> IF name = <<"a", "l", "l">> \/ name = <<"h", "e", "r", "e">>
                                   THEN "all" ELSE "agent",
                    startIndex |-> i - 1,
                    length     |-> e - i] >> \o scanMentions(text, e)
       ELSE scanMentions(text, i + 1)

extractMentions(text) == scanMentions(text, 1)

\* HMAC-SHA256 of JSON.stringify({id, senderId, content, sentAt}) under the
\* signing key: a collision-free digest is the payload itself, tagged
signMessage(id, senderId, content, sentAt) ==
  <<"hmac", id, senderId, content, sentAt>>

verifySignature(message) ==
  message.signature =
    signMessage(message.id, message.senderId, message.content, message.sentAt)

\* a frame that always carries the first message
messageFrameStale(id) == [type |-> "message", id |-> messageIdOf(1)]

messageFrame(id) == [type |-> "message", id |-> id]
eventFrame(id, action) == [type |-> "event", event |-> "message.sent", id |-> id, action |-> action]

\* emitRelayEvent: to the target's channel subscribers when a target is given
emitRelayEventCalls(target, frame) ==
  IF target # None THEN {Call("broadcastToChannel", target, frame)}
  ELSE {Call("broadcast", "*", frame)}

emitRelayEvent(target, frame) ==
  IF target # None THEN broadcastToChannel(connections, wsState, subscriptions, target, frame)
  ELSE broadcast(connections, wsState, frame)

\* input = [targetId, targetType, text, threadId]
\* a send that skips the channel access test
sendAllowedAlways(input, senderId) == TRUE

\* the guard at the head of send: only a channel target is access-checked
sendAllowed(input, senderId) ==
  input.targetType = "channel" => checkAccess(input.targetId, senderId, "write")

Message_send(input, senderId) ==
  /\ IF ~sendAllowed(input, senderId)
     THEN /\ lastOp' = Result("send", "PermissionDenied")
          /\ UNCHANGED msgVars
          /\ Silent
     ELSE LET n       == Cardinality(DOMAIN messages) + 1
              id      == messageIdOf(n)
              content == [text |-> input.text, mentions |-> extractMentions(input.text)]
              message == [ id             |-> id,
                           targetId       |-> input.targetId,
                           targetType     |-> input.targetType,
                           senderId       |-> senderId,
                           content        |-> content,
                           threadId       |-> input.threadId,
                           signature      |-> signMessage(id, senderId, content, now),
                           deliveryStatus |-> "sent",
                           sentAt         |-> now,
                           editedAt       |-> NoTime,
                           deletedAt      |-> NoTime ]
          IN
          /\ messages' = messages @@ (id :> message)
          /\ channelMessages' =
               IF input.targetType # "channel" THEN channelMessages
               ELSE IF input.targetId \in DOMAIN channelMessages
               THEN [channelMessages EXCEPT ![input.targetId] = Append(@, id)]
               ELSE channelMessages @@ (input.targetId :> <<id>>)
          /\ threadMessages' =
               IF input.threadId = None THEN threadMessages
               ELSE IF input.threadId \in DOMAIN threadMessages
               THEN [threadMessages EXCEPT ![input.threadId] = Append(@, id)]
               ELSE threadMessages @@ (input.threadId :> <<id>>)
          \* broadcastMessage
          /\ relayCalls' =
               CASE input.targetType = "channel"   -> {Call("broadcastToChannel", input.targetId, messageFrame(id))}
                 [] input.targetType = "agent"     -> {Call("sendToAgent", input.targetId, messageFrame(id))}
                 [] input.targetType = "broadcast" -> {Call("broadcast", "*", messageFrame(id))}
          /\ wire' =
               CASE input.targetType = "channel"   -> broadcastToChannel(connections, wsState, subscriptions, input.targetId, messageFrame(id))
                 [] input.targetType = "agent"     -> sendToAgent(connections, wsState, input.targetId, messageFrame(id))
                 [] input.targetType = "broadcast" -> broadcast(connections, wsState, messageFrame(id))
          /\ lastOp' = Result("send", "ok")
  /\ UNCHANGED <<now, chanVars, relayVars, presVars, authVars, permQuery, ackVars>>

\* a sender test that everybody passes
isSenderAnyone(m, agentId) == TRUE

\* the test both edit() and delete() make before they change anything
isSender(m, agentId) == m.senderId = agentId

\* an edit that keeps the signature of the text it replaces
editedUnsigned(m, newText, t) ==
  [m EXCEPT !.content = [m.content EXCEPT !.text = newText], !.editedAt = t]

\* the three assignments of edit: text, editedAt, signature over the new content
edited(m, newText, t) ==
  LET content == [m.content EXCEPT !.text = newText]
  IN  [m EXCEPT !.content = content,
                !.editedAt = t,
                !.signature = signMessage(m.id, m.senderId, content, m.sentAt)]

Message_edit(messageId, newText, editorId) ==
  /\ IF messageId \notin DOMAIN messages
     THEN /\ lastOp' = Result("edit", "false")
          /\ UNCHANGED messages
          /\ Silent
     ELSE IF ~isSender(messages[messageId], editorId)
     THEN /\ lastOp' = Result("edit", "PermissionDenied")
          /\ UNCHANGED messages
          /\ Silent
     ELSE LET m == messages[messageId]
          IN
          /\ messages' = [messages EXCEPT ![messageId] = edited(m, newText, now)]
          /\ relayCalls' = emitRelayEventCalls(m.targetId, eventFrame(messageId, "edited"))
          /\ wire' = emitRelayEvent(m.targetId, eventFrame(messageId, "edited"))
          /\ lastOp' = Result("edit", "true")
  /\ UNCHANGED <<now, channelMessages, threadMessages, chanVars, relayVars, presVars,
                 authVars, permQuery, ackVars>>

Message_delete(messageId, deleterId) ==
  /\ IF messageId \notin DOMAIN messages
     THEN /\ lastOp' = Result("deleteMessage", "false")
          /\ UNCHANGED messages
          /\ Silent
     ELSE IF ~isSender(messages[messageId], deleterId)
     THEN /\ lastOp' = Result("deleteMessage", "PermissionDenied")
          /\ UNCHANGED messages
          /\ Silent
     ELSE LET m == messages[messageId]
          IN
          /\ messages' = [messages EXCEPT ![messageId].deletedAt = now]
          /\ relayCalls' = emitRelayEventCalls(m.targetId, eventFrame(messageId, "deleted"))
          /\ wire' = emitRelayEvent(m.targetId, eventFrame(messageId, "deleted"))
          /\ lastOp' = Result("deleteMessage", "true")
  /\ UNCHANGED <<now, channelMessages, threadMessages, chanVars, relayVars, presVars,
                 authVars, permQuery, ackVars>>

\* a markDelivered that stores delivered whatever the status is
deliveredAlways(m) == [m EXCEPT !.deliveryStatus = "delivered"]

\* markDelivered on a stored message: only a status of exactly sent advances
delivered(m) ==
  IF m.deliveryStatus = "sent" THEN [m EXCEPT !.deliveryStatus = "delivered"] ELSE m

Message_markDelivered(messageId, recipientId) ==
  /\ messages' = IF messageId \in DOMAIN messages
                 THEN [messages EXCEPT ![messageId] = delivered(@)]
                 ELSE messages
  /\ lastOp' = Result("markDelivered", "void")
  /\ Silent
  /\ UNCHANGED <<now, channelMessages, threadMessages, chanVars, relayVars, presVars,
                 authVars, permQuery, ackVars>>

Message_markRead(messageId, readerId) ==
  /\ messages' = IF messageId \in DOMAIN messages
                 THEN [messages EXCEPT ![messageId].deliveryStatus = "read"]
                 ELSE messages
  /\ lastOp' = Result("markRead", "void")
  /\ Silent
  /\ UNCHANGED <<now, channelMessages, threadMessages, chanVars, relayVars, presVars,
                 authVars, permQuery, ackVars>>

\* MessageService constructor: empty tables
\* ------------------------------------------------------------------------
\* MessageService: the read paths
\* ------------------------------------------------------------------------
\* a filter that lets deleted messages through
notDeletedAny(m) == TRUE

\* !m.deletedAt: the field is undefined until delete() stores a timestamp
notDeleted(m) == m.deletedAt = NoTime

\* ids.map(id => messages.get(id)).filter(Boolean)
messagesOf(ids) ==
  LET known == SelectSeq(ids, LAMBDA id : id \in DOMAIN messages)
  IN  [i \in 1 .. Len(known) |-> messages[known[i]]]

\* Array.prototype.sort is stable: equal sentAt keep their order
RECURSIVE insertDescending(_, _)
insertDescending(sorted, m) ==
  IF sorted = << >> THEN << m >>
  ELSE IF Head(sorted).sentAt >= m.sentAt
  THEN << Head(sorted) >> \o insertDescending(Tail(sorted), m)
  ELSE << m >> \o sorted

RECURSIVE sortDescending(_)
sortDescending(ms) ==
  IF ms = << >> THEN << >>
  ELSE insertDescending(sortDescending(SubSeq(ms, 1, Len(ms) - 1)), ms[Len(ms)])

RECURSIVE insertAscending(_, _)
insertAscending(sorted, m) ==
  IF sorted = << >> THEN << m >>
  ELSE IF Head(sorted).sentAt <= m.sentAt
  THEN << Head(sorted) >> \o insertAscending(Tail(sorted), m)
  ELSE << m >> \o sorted

RECURSIVE sortAscending(_)
sortAscending(ms) ==
  IF ms = << >> THEN << >>
  ELSE insertAscending(sortAscending(SubSeq(ms, 1, Len(ms) - 1)), ms[Len(ms)])

\* a slice that cuts nothing off
sliceAll(ms, limit) == ms

\* Array.prototype.slice(0, limit): a negative end counts from the end of
\* the array, an end beyond the length is the length
slice(ms, limit) ==
  LET end == IF limit < 0
             THEN (IF Len(ms) + limit > 0 THEN Len(ms) + limit ELSE 0)
             ELSE (IF limit < Len(ms) THEN limit ELSE Len(ms))
  IN  SubSeq(ms, 1, end)

getById(id) == IF id \in DOMAIN messages THEN messages[id] ELSE None

getChannelMessages(channelId, limit, before) ==
  LET ids     == IF channelId \in DOMAIN channelMessages THEN channelMessages[channelId] ELSE << >>
      live    == SelectSeq(messagesOf(ids), notDeleted)
      sorted  == sortDescending(live)
      earlier == IF before # None /\ before \in DOMAIN messages
                 THEN SelectSeq(sorted, LAMBDA m : m.sentAt < messages[before].sentAt)
                 ELSE sorted
  IN  slice(earlier, limit)

getThreadMessages(threadId) ==
  LET ids == IF threadId \in DOMAIN threadMessages THEN threadMessages[threadId] ELSE << >>
  IN  sortAscending(SelectSeq(messagesOf(ids), notDeleted))

\* String.prototype.toLowerCase over the characters texts are made of
lowerChar(ch) == CASE ch = "H" -> "h" [] ch = "I" -> "i" [] ch = "A" -> "a" [] OTHER -> ch

toLowerCase(text) == [i \in 1 .. Len(text) |-> lowerChar(text[i])]

\* String.prototype.includes
includes(text, query) ==
  \E i \in 0 .. Len(text) - Len(query) : SubSeq(text, i + 1, i + Len(query)) = query

\* search(): the Map is walked in insertion order; options = [channelId, senderId, limit]
RECURSIVE searchFrom(_, _, _, _, _)
searchFrom(n, query, options, limit, results) ==
  IF n > Cardinality(DOMAIN messages) \/ Len(results) >= limit THEN results
  ELSE LET m == messages[messageIdOf(n)]
           skip == \/ ~notDeleted(m)
                   \/ options.channelId # None /\ m.targetId # options.channelId
                   \/ options.senderId # None /\ m.senderId # options.senderId
                   \/ ~includes(toLowerCase(m.content.text), toLowerCase(query))
       IN  searchFrom(n + 1, query, options, limit,
                      IF skip THEN results ELSE Append(results, m))

search(query, options) ==
  searchFrom(1, query, options, IF options.limit = 0 THEN 20 ELSE options.limit, << >>)

\* the read paths as operations: the store is left alone, the answer is kept
Answer(op, args, result) == [op |-> op, args |-> args, result |-> result]

Message_getById(id) ==
  /\ lastOp' = Answer("getById", << id >>, getById(id))
  /\ Silent
  /\ UNCHANGED <<now, msgVars, chanVars, relayVars, presVars, authVars, permQuery, ackVars>>

Message_getChannelMessages(channelId, limit, before) ==
  /\ lastOp' = Answer("getChannelMessages", << channelId, limit, before >>,
                      getChannelMessages(channelId, limit, before))
  /\ Silent
  /\ UNCHANGED <<now, msgVars, chanVars, relayVars, presVars, authVars, permQuery, ackVars>>

Message_getThreadMessages(threadId) ==
  /\ lastOp' = Answer("getThreadMessages", << threadId >>, getThreadMessages(threadId))
  /\ Silent
  /\ UNCHANGED <<now, msgVars, chanVars, relayVars, presVars, authVars, permQuery, ackVars>>

Message_search(query, options) ==
  /\ lastOp' = Answer("search", << query, options >>, search(query, options))
  /\ Silent
  /\ UNCHANGED <<now, msgVars, chanVars, relayVars, presVars, authVars, permQuery, ackVars>>

InitMessages ==
  /\ messages = << >>
  /\ channelMessages = << >>
  /\ threadMessages = << >>

\* =========================================================================
\* AgentService: presence status kept in the agent registry
\* =========================================================================

\* updatePresence(id, status): false (no change) for an unknown agent
updatePresence(ags, id, status) ==
  IF id \in DOMAIN ags THEN [ags EXCEPT ![id].status = status] ELSE ags

Agent_connect(ags, id)    == updatePresence(ags, id, "online")
Agent_disconnect(ags, id) == updatePresence(ags, id, "offline")

\* =========================================================================
\* PresenceService
\* =========================================================================
HEARTBEAT_INTERVAL == 30000
IDLE_TIMEOUT       == 60000
OFFLINE_TIMEOUT    == 120000

TimeStep == HEARTBEAT_INTERVAL \div 2      \* granularity of the clock

PresenceStatuses == {"online", "idle", "busy", "dnd", "offline"}

presenceFrame(agentId, status) == [type |-> "presence", agentId |-> agentId, status |-> status]

\* connect(): a fresh record, status online
connectP(ps, agentId, t) ==
  [a \in DOMAIN ps \cup {agentId} |->
     IF a = agentId
     THEN [status |-> "online", lastHeartbeat |-> t, connectedAt |-> t,
           isTyping |-> FALSE, typingInChannel |-> None]
     ELSE ps[a]]

\* disconnect(): status offline, broadcast, then the record is deleted
disconnectP(ps, agentId) == [a \in DOMAIN ps \ {agentId} |-> ps[a]]

\* a disconnect that broadcasts offline whether or not there is a record
disconnectFramesAlways(ps, agentId) == {presenceFrame(agentId, "offline")}

disconnectFrames(ps, agentId) ==
  IF agentId \in DOMAIN ps THEN {presenceFrame(agentId, "offline")} ELSE {}

\* setStatus(): assigns the status and refreshes lastHeartbeat
setStatusP(ps, agentId, status, t) ==
  IF agentId \notin DOMAIN ps THEN ps
  ELSE [ps EXCEPT ![agentId].status = status, ![agentId].lastHeartbeat = t]

\* setStatus() broadcasts only when the status changed
setStatusFrames(ps, agentId, status) ==
  IF agentId \in DOMAIN ps /\ ps[agentId].status # status
  THEN {presenceFrame(agentId, status)} ELSE {}

\* a heartbeat that turns every status into online
heartbeatAlwaysOnline(ps, agentId, t) ==
  IF agentId \notin DOMAIN ps THEN ps
  ELSE [ps EXCEPT ![agentId].status = "online", ![agentId].lastHeartbeat = t]

\* heartbeat(): lastHeartbeat = now; an idle agent goes back online via setStatus
heartbeatP(ps, agentId, t) ==
  IF agentId \notin DOMAIN ps THEN ps
  ELSE LET touched == [ps EXCEPT ![agentId].lastHeartbeat = t]
       IN  IF touched[agentId].status = "idle"
           THEN setStatusP(touched, agentId, "online", t)
           ELSE touched

heartbeatFrames(ps, agentId) ==
  IF agentId \in DOMAIN ps /\ ps[agentId].status = "idle"
  THEN setStatusFrames(ps, agentId, "online") ELSE {}

\* the delay of the auto-clear setTimeout in setTyping
TYPING_TIMEOUT == 10000

\* `${agentId}:${channelId}`
timerKey(agentId, channelId) == << agentId, channelId >>

\* the handle setTimeout returns for the auto-clear armed at time t
timerHandle(agentId, channelId, t) ==
  [agentId |-> agentId, channelId |-> channelId, due |-> t + TYPING_TIMEOUT]

typingFrame(agentId, channelId, isTyping) ==
  [type |-> "presence", agentId |-> agentId, channelId |-> channelId, isTyping |-> isTyping]

\* the handle stored under the key, if any
existingTimer(timers, key) == IF key \in DOMAIN timers THEN {timers[key]} ELSE {}

\* a clearTimeout that cancels nothing
clearNothing(pending, handles) == pending

\* clearTimeout(existingTimer)
clearTimeout(pending, handles) == pending \ handles

\* setTyping(): the isTyping and typingInChannel fields
setTypingP(ps, agentId, channelId, isTyping) ==
  IF agentId \notin DOMAIN ps THEN ps
  ELSE [ps EXCEPT ![agentId].isTyping = isTyping,
                  ![agentId].typingInChannel = IF isTyping THEN channelId ELSE None]

\* setTyping(): the typingTimers map
setTypingTimers(ps, timers, agentId, channelId, isTyping, t) ==
  LET key     == timerKey(agentId, channelId)
      deleted == [k \in DOMAIN timers \ {key} |-> timers[k]]
  IN  IF agentId \notin DOMAIN ps THEN timers
      ELSE IF isTyping THEN deleted @@ (key :> timerHandle(agentId, channelId, t))
      ELSE deleted

\* setTyping(): the pending timeouts of the runtime
setTypingTimeouts(ps, timers, pending, agentId, channelId, isTyping, t) ==
  LET key     == timerKey(agentId, channelId)
      cleared == clearTimeout(pending, existingTimer(timers, key))
  IN  IF agentId \notin DOMAIN ps THEN pending
      ELSE IF isTyping THEN cleared \cup {timerHandle(agentId, channelId, t)}
      ELSE cleared

\* setTyping(): broadcastTyping to the channel
setTypingFrames(ps, agentId, channelId, isTyping) ==
  IF agentId \in DOMAIN ps THEN {typingFrame(agentId, channelId, isTyping)} ELSE {}

\* what checkHeartbeats does to one record at time t
checkVerdict(p, t) ==
  LET elapsed == t - p.lastHeartbeat
  IN  IF elapsed > OFFLINE_TIMEOUT /\ p.status # "offline" THEN "disconnect"
      ELSE IF elapsed > IDLE_TIMEOUT /\ p.status = "online" THEN "idle"
      ELSE "keep"

\* checkHeartbeats(): every record is judged on its own
checkHeartbeats(ps, t) ==
  LET kept == {a \in DOMAIN ps : checkVerdict(ps[a], t) # "disconnect"}
  IN  [a \in kept |->
         IF checkVerdict(ps[a], t) = "idle"
         THEN [ps[a] EXCEPT !.status = "idle", !.lastHeartbeat = t]
         ELSE ps[a]]

checkHeartbeatsFrames(ps, t) ==
  {presenceFrame(a, "offline") : a \in {x \in DOMAIN ps : checkVerdict(ps[x], t) = "disconnect"}}
  \cup {presenceFrame(a, "idle") : a \in {x \in DOMAIN ps : checkVerdict(ps[x], t) = "idle"}}

\* frames of a set of presence broadcasts, as written by broadcast()
broadcastAll(conns, ws, frames) == BagUnion({broadcast(conns, ws, f) : f \in frames})
broadcastCalls(frames) == {Call("broadcast", "*", f) : f \in frames}

\* PresenceService constructor: no record, the checker interval armed
InitPresence ==
  /\ presences = << >>
  /\ nextDue = HEARTBEAT_INTERVAL
  /\ quiet = [a \in Agents |-> NoTime]
  /\ typingTimers = << >>
  /\ timeouts = {}

\* AgentService constructor: empty registry
InitAgents ==
  /\ agents = << >>
  /\ issued = {}

\* ------------------------------------------------------------------------
\* PresenceService operations as the HTTP routes and timers invoke them
\* ------------------------------------------------------------------------
Emit(frames) ==
  /\ relayCalls' = broadcastCalls(frames)
  /\ wire' = broadcastAll(connections, wsState, frames)

\* POST /presence/connect: agentService.connect, presenceService.connect
Presence_connect(agentId) ==
  /\ agents' = Agent_connect(agents, agentId)
  /\ presences' = connectP(presences, agentId, now)
  /\ quiet' = [quiet EXCEPT ![agentId] = now]
  /\ Emit({presenceFrame(agentId, "online")})
  /\ lastOp' = Result("connect", "ok")
  /\ UNCHANGED <<now, nextDue, typingTimers, timeouts, issued, chanVars, relayVars, msgVars,
                 permQuery, ackVars>>

\* POST /presence/disconnect: agentService.disconnect, presenceService.disconnect
Presence_disconnect(agentId) ==
  /\ agents' = Agent_disconnect(agents, agentId)
  /\ presences' = disconnectP(presences, agentId)
  /\ quiet' = [quiet EXCEPT ![agentId] = NoTime]
  /\ Emit(disconnectFrames(presences, agentId))
  /\ lastOp' = Result("disconnect", "void")
  /\ UNCHANGED <<now, nextDue, typingTimers, timeouts, issued, chanVars, relayVars, msgVars,
                 permQuery, ackVars>>

\* PUT /presence/status: the status of the request body, unvalidated
Presence_setStatus(agentId, status) ==
  /\ presences' = setStatusP(presences, agentId, status, now)
  /\ quiet' = [quiet EXCEPT ![agentId] = NoTime]
  /\ Emit(setStatusFrames(presences, agentId, status))
  /\ lastOp' = Result("setStatus", IF agentId \in DOMAIN presences THEN "true" ELSE "false")
  /\ UNCHANGED <<now, nextDue, typingTimers, timeouts, authVars, chanVars, relayVars, msgVars,
                 permQuery, ackVars>>

\* POST /presence/heartbeat
Presence_heartbeat(agentId) ==
  /\ presences' = heartbeatP(presences, agentId, now)
  /\ quiet' = [quiet EXCEPT ![agentId] = NoTime]
  /\ Emit(heartbeatFrames(presences, agentId))
  /\ lastOp' = Result("heartbeat", IF agentId \in DOMAIN presences THEN "true" ELSE "false")
  /\ UNCHANGED <<now, nextDue, typingTimers, timeouts, authVars, chanVars, relayVars, msgVars,
                 permQuery, ackVars>>

\* startActivity: the activity descriptor, then setStatus(BUSY)
Presence_startActivity(agentId) ==
  /\ presences' = setStatusP(presences, agentId, "busy", now)
  /\ quiet' = [quiet EXCEPT ![agentId] = NoTime]
  /\ Emit(setStatusFrames(presences, agentId, "busy"))
  /\ lastOp' = Result("startActivity", IF agentId \in DOMAIN presences THEN "true" ELSE "false")
  /\ UNCHANGED <<now, nextDue, typingTimers, timeouts, authVars, chanVars, relayVars, msgVars,
                 permQuery, ackVars>>

\* endActivity: clears the descriptor, then setStatus(ONLINE)
Presence_endActivity(agentId) ==
  /\ presences' = setStatusP(presences, agentId, "online", now)
  /\ quiet' = [quiet EXCEPT ![agentId] = NoTime]
  /\ Emit(setStatusFrames(presences, agentId, "online"))
  /\ lastOp' = Result("endActivity", IF agentId \in DOMAIN presences THEN "true" ELSE "false")
  /\ UNCHANGED <<now, nextDue, typingTimers, timeouts, authVars, chanVars, relayVars, msgVars,
                 permQuery, ackVars>>

\* the setInterval callback of startHeartbeatChecker, fired when due
Presence_checker ==
  /\ now = nextDue
  /\ presences' = checkHeartbeats(presences, now)
  /\ nextDue' = now + HEARTBEAT_INTERVAL
  /\ Emit(checkHeartbeatsFrames(presences, now))
  /\ lastOp' = Result("checkHeartbeats", "void")
  /\ UNCHANGED <<now, quiet, typingTimers, timeouts, authVars, chanVars, relayVars, msgVars,
                 permQuery, ackVars>>

\* broadcastTyping: relayClient.broadcastToChannel(channelId, frame)
EmitToChannel(channelId, frames) ==
  /\ relayCalls' = {Call("broadcastToChannel", channelId, f) : f \in frames}
  /\ wire' = BagUnion({broadcastToChannel(connections, wsState, subscriptions, channelId, f) :
                         f \in frames})

\* POST /presence/typing: presenceService.setTyping
Presence_setTyping(agentId, channelId, isTyping) ==
  /\ presences' = setTypingP(presences, agentId, channelId, isTyping)
  /\ typingTimers' = setTypingTimers(presences, typingTimers, agentId, channelId, isTyping, now)
  /\ timeouts' = setTypingTimeouts(presences, typingTimers, timeouts, agentId, channelId,
                                   isTyping, now)
  /\ quiet' = [quiet EXCEPT ![agentId] =
                 IF isTyping /\ agentId \in DOMAIN presences THEN now ELSE NoTime]
  /\ EmitToChannel(channelId, setTypingFrames(presences, agentId, channelId, isTyping))
  /\ lastOp' = Result("setTyping", IF agentId \in DOMAIN presences THEN "true" ELSE "false")
  /\ UNCHANGED <<now, nextDue, authVars, chanVars, relayVars, msgVars, permQuery, ackVars>>

\* the setTimeout callback of setTyping, fired when due: the handle is spent,
\* then setTyping(agentId, channelId, false)
Presence_typingTimeout(handle) ==
  /\ handle \in timeouts
  /\ handle.due = now
  /\ presences' = setTypingP(presences, handle.agentId, handle.channelId, FALSE)
  /\ typingTimers' = setTypingTimers(presences, typingTimers, handle.agentId,
                                     handle.channelId, FALSE, now)
  /\ timeouts' = setTypingTimeouts(presences, typingTimers, timeouts \ {handle},
                                   handle.agentId, handle.channelId, FALSE, now)
  /\ EmitToChannel(handle.channelId,
                   setTypingFrames(presences, handle.agentId, handle.channelId, FALSE))
  /\ lastOp' = Result("typingTimeout",
                      IF handle.agentId \in DOMAIN presences THEN "true" ELSE "false")
  /\ UNCHANGED <<now, nextDue, quiet, authVars, chanVars, relayVars, msgVars, permQuery,
                 ackVars>>

\* time passes in steps of half a typing timeout; a due checker interval and
\* the due typing timeouts fire before the clock moves on
TypingStep == TYPING_TIMEOUT \div 2

TypingTick ==
  /\ now < nextDue
  /\ \A handle \in timeouts : handle.due > now
  /\ now' = now + TypingStep
  /\ lastOp' = Result("tick", "void")
  /\ Silent
  /\ UNCHANGED <<presVars, authVars, chanVars, relayVars, msgVars, permQuery, ackVars>>

\* time passes; a due checker interval fires before the clock moves on
Tick ==
  /\ now + TimeStep <= nextDue
  /\ now' = now + TimeStep
  /\ lastOp' = Result("tick", "void")
  /\ Silent
  /\ UNCHANGED <<presVars, authVars, chanVars, relayVars, msgVars, permQuery, ackVars>>

\* ------------------------------------------------------------------------
\* RelayClient: socket events
\* ------------------------------------------------------------------------
ackFrames(socket, correlationId) ==
  IF correlationId # None /\ wsState[socket] = "open"
  THEN SetToBag({[to |-> None, socket |-> socket, frame |-> [type |-> "ack", correlationId |-> correlationId]]})
  ELSE EmptyBag

\* wss 'connection': a new socket object (the least unused one), readyState OPEN
Relay_handleConnection(socket) ==
  /\ wsState[socket] = "none"
  /\ \A other \in Sockets : wsState[other] = "none" => socket <= other
  /\ wsState' = [wsState EXCEPT ![socket] = "open"]
  /\ lastOp' = Result("handleConnection", "void")
  /\ Silent
  /\ UNCHANGED <<now, connections, subscriptions, chanVars, msgVars, presVars, authVars,
                 permQuery, ackVars>>

\* JSON.parse on the raw frames the model sends: whether it returns, and
\* the kind and the type member of the value it returns
jsonParse(raw) ==
  CASE raw = "{"                     -> [ok |-> FALSE, kind |-> None,     type |-> None]
    [] raw = "null"                  -> [ok |-> TRUE,  kind |-> "null",   type |-> None]
    [] raw = "7"                     -> [ok |-> TRUE,  kind |-> "number", type |-> None]
    [] raw = "{}"                    -> [ok |-> TRUE,  kind |-> "object", type |-> None]
    [] raw = "{\"type\":\"bogus\"}"  -> [ok |-> TRUE,  kind |-> "object", type |-> "bogus"]

\* a frame check that calls everything INVALID_FORMAT
frameErrorAlwaysInvalid(raw) == "INVALID_FORMAT"

\* the 'message' listener and handleMessage: the error code a raw frame ends
\* in. JSON.parse throws inside the try, and so does destructuring null;
\* a type outside the four cases of the switch takes the default branch
frameError(raw) ==
  LET message == jsonParse(raw)
  IN  IF ~message.ok \/ message.kind = "null" THEN "INVALID_FORMAT"
      ELSE IF message.type \in {"event", "message", "presence", "ack"} THEN None
      ELSE "UNKNOWN_TYPE"

\* sendError(): the error frame, written when the socket is OPEN
sendError(ws, socket, code) ==
  IF ws[socket] = "open"
  THEN SetToBag({[to |-> None, socket |-> socket, frame |-> [type |-> "error", code |-> code]]})
  ELSE EmptyBag

\* ws 'message' with a raw frame that ends in sendError
Relay_message(socket, raw) ==
  /\ wsState[socket] \in {"open", "closing"}
  /\ frameError(raw) # None
  /\ relayCalls' = {}
  /\ wire' = sendError(wsState, socket, frameError(raw))
  /\ lastOp' = Result("message", frameError(raw))
  /\ UNCHANGED <<now, relayVars, chanVars, msgVars, presVars, authVars, permQuery, ackVars>>

\* the peer or the server starts the closing handshake: readyState CLOSING
Relay_closing(socket) ==
  /\ wsState[socket] = "open"
  /\ wsState' = [wsState EXCEPT ![socket] = "closing"]
  /\ lastOp' = Result("closing", "void")
  /\ Silent
  /\ UNCHANGED <<now, connections, subscriptions, chanVars, msgVars, presVars, authVars,
                 permQuery, ackVars>>

\* frame {type: event, event: agent.connected, data: {agentId}}:
\* registerConnection, then the server's agent:connected handler, then the ack
Relay_agentConnected(socket, agentId, correlationId) ==
  /\ wsState[socket] = "open"
  /\ connections' = [a \in DOMAIN connections \cup {agentId} |->
                       IF a = agentId THEN socket ELSE connections[a]]
  /\ agents' = Agent_connect(agents, agentId)
  /\ presences' = connectP(presences, agentId, now)
  /\ quiet' = [quiet EXCEPT ![agentId] = now]
  /\ relayCalls' = broadcastCalls({presenceFrame(agentId, "online")})
  /\ wire' = broadcastAll(connections', wsState, {presenceFrame(agentId, "online")})
             (+) ackFrames(socket, correlationId)
  /\ lastOp' = Result("agent.connected", "void")
  /\ UNCHANGED <<now, wsState, subscriptions, nextDue, typingTimers, timeouts, issued, chanVars, msgVars,
                 permQuery, ackVars>>

channelEventFrame(event, agentId, channelId) ==
  [type |-> "event", event |-> event, agentId |-> agentId, channelId |-> channelId]

\* frame {type: event, event: channel.joined, data: {agentId, channelId}}:
\* subscribe, tell the channel, (presence.joinChannel), ack
Relay_channelJoined(socket, agentId, channelId, correlationId) ==
  /\ wsState[socket] = "open"
  /\ subscriptions' = subscribeToChannel(subscriptions, agentId, channelId)
  /\ relayCalls' = {Call("broadcastToChannel", channelId,
                          channelEventFrame("channel.joined", agentId, channelId))}
  /\ wire' = broadcastToChannel(connections, wsState, subscriptions', channelId,
                                channelEventFrame("channel.joined", agentId, channelId))
             (+) ackFrames(socket, correlationId)
  /\ lastOp' = Result("channel.joined", "void")
  /\ UNCHANGED <<now, connections, wsState, chanVars, msgVars, presVars, authVars,
                 permQuery, ackVars>>

\* frame {type: event, event: channel.left, data: {agentId, channelId}}
Relay_channelLeft(socket, agentId, channelId, correlationId) ==
  /\ wsState[socket] = "open"
  /\ subscriptions' = unsubscribeFromChannel(subscriptions, agentId, channelId)
  /\ relayCalls' = {Call("broadcastToChannel", channelId,
                          channelEventFrame("channel.left", agentId, channelId))}
  /\ wire' = broadcastToChannel(connections, wsState, subscriptions', channelId,
                                channelEventFrame("channel.left", agentId, channelId))
             (+) ackFrames(socket, correlationId)
  /\ lastOp' = Result("channel.left", "void")
  /\ UNCHANGED <<now, connections, wsState, chanVars, msgVars, presVars, authVars,
                 permQuery, ackVars>>

\* handleDisconnect that leaves the subscription sets alone
keepSubscriptions(subs, gone) == subs

\* the inner loop of handleDisconnect: the agents leave every subscription set
removeFromSubscriptions(subs, gone) == [c \in DOMAIN subs |-> subs[c] \ gone]

\* a disconnect scan that takes every registered agent
closedAgentsAll(conns, ws) == DOMAIN conns

\* handleDisconnect: the agents whose registered socket is CLOSED
closedAgents(conns, ws) == {a \in DOMAIN conns : ws[conns[a]] = "closed"}

\* socket 'close': readyState CLOSED, then handleDisconnect, whose loop drops
\* every agent bound to a CLOSED socket and emits agent:disconnected for it.
\* No reference to the closed socket object is left afterwards.
Relay_close(socket) ==
  /\ wsState[socket] \in {"open", "closing"}
  /\ wsState' = [wsState EXCEPT ![socket] = "none"]
  /\ LET closed == [wsState EXCEPT ![socket] = "closed"]
         gone   == closedAgents(connections, closed)
         frames == UNION {disconnectFrames(presences, a) : a \in gone}
     IN  /\ connections' = [a \in DOMAIN connections \ gone |-> connections[a]]
         /\ subscriptions' = removeFromSubscriptions(subscriptions, gone)
         /\ agents' = [a \in DOMAIN agents |->
                         IF a \in gone THEN [agents[a] EXCEPT !.status = "offline"] ELSE agents[a]]
         /\ presences' = [a \in DOMAIN presences \ gone |-> presences[a]]
         /\ quiet' = [a \in Agents |-> IF a \in gone THEN NoTime ELSE quiet[a]]
         /\ relayCalls' = broadcastCalls(frames)
         /\ wire' = broadcastAll(connections', wsState', frames)
  /\ lastOp' = Result("close", "void")
  /\ UNCHANGED <<now, nextDue, typingTimers, timeouts, issued, chanVars, msgVars,
                 permQuery, ackVars>>

\* stop(): close(1000) on every registered socket, which turns an OPEN socket
\* to CLOSING, and the registration is deleted at once; the 'close' events
\* come later. (A 'connection' event after this presupposes start() again.)
Relay_stop ==
  /\ wsState' = [s \in Sockets |->
                   IF wsState[s] = "open" /\ \E a \in DOMAIN connections : connections[a] = s
                   THEN "closing" ELSE wsState[s]]
  /\ connections' = << >>
  /\ lastOp' = Result("stop", "void")
  /\ Silent
  /\ UNCHANGED <<now, subscriptions, chanVars, msgVars, presVars, authVars, permQuery, ackVars>>

\* ------------------------------------------------------------------------
\* RelayClient: the public send methods, called on their own
\* ------------------------------------------------------------------------
Relay_sendToAgent(agentId, frame) ==
  /\ relayCalls' = {Call("sendToAgent", agentId, frame)}
  /\ wire' = sendToAgent(connections, wsState, agentId, frame)
  /\ lastOp' = Result("sendToAgent", "void")
  /\ UNCHANGED <<now, chanVars, relayVars, msgVars, presVars, authVars, permQuery, ackVars>>

Relay_broadcastToChannel(channelId, frame) ==
  /\ relayCalls' = {Call("broadcastToChannel", channelId, frame)}
  /\ wire' = broadcastToChannel(connections, wsState, subscriptions, channelId, frame)
  /\ lastOp' = Result("broadcastToChannel", "void")
  /\ UNCHANGED <<now, chanVars, relayVars, msgVars, presVars, authVars, permQuery, ackVars>>

\* ------------------------------------------------------------------------
\* RelayClient.sendWithAck, its timer, and handleAck
\* ------------------------------------------------------------------------
ACK_TIMEOUT == 5000                 \* default timeoutMs

AckStep == ACK_TIMEOUT \div 2       \* granularity of the clock where acks are awaited

correlationIdOf(n) == "corr-" \o ToString(n)

ackRequestFrame(correlationId) == [type |-> "event", correlationId |-> correlationId]

\* a delete that leaves the entry in the table
forgetNothing(map, key) == map

\* Map.delete
mapDelete(map, key) == [k \in DOMAIN map \ {key} |-> map[k]]

\* handleAck's pendingAcks.delete(correlationId)
forgetPending(map, key) == mapDelete(map, key)

\* what was handled for a call and which of resolve / reject it invoked
\* (the first thing handled for a call, and the kinds of what came after it)
noteHandled(calls, c, what, t) ==
  IF c \notin DOMAIN calls THEN calls
  ELSE IF calls[c].first = None
  THEN [calls EXCEPT ![c].first = what]
  ELSE [calls EXCEPT ![c].later = @ \cup {what}]

noteSettled(calls, c, how, t) ==
  [calls EXCEPT ![c].settled = Append(@, [how |-> how, at |-> t])]

\* sendWithAck(agentId, message, timeoutMs): fresh correlation id, timer armed,
\* entry stored, frame sent; the promise stays pending
Relay_sendWithAck(agentId, timeoutMs) ==
  LET c == correlationIdOf(nextAckId)
  IN  /\ nextAckId' = nextAckId + 1
      /\ ackTimers' = ackTimers @@ (c :> now + timeoutMs)
      /\ pendingAcks' = pendingAcks @@ (c :> agentId)
      /\ ackCalls' = ackCalls @@ (c :> [agentId |-> agentId,
                                       deadline |-> now + timeoutMs,
                                       written |-> sendToAgent(connections, wsState, agentId,
                                                               ackRequestFrame(c)) # EmptyBag,
                                       first |-> None, later |-> {},
                                       settled |-> << >>])
      /\ relayCalls' = {Call("sendToAgent", agentId, ackRequestFrame(c))}
      /\ wire' = sendToAgent(connections, wsState, agentId, ackRequestFrame(c))
      /\ lastOp' = Result("sendWithAck", c)
      /\ UNCHANGED <<now, chanVars, relayVars, msgVars, presVars, authVars, permQuery>>

\* the setTimeout callback of a call, run when due unless it was cleared
Relay_ackTimeout(c) ==
  /\ c \in DOMAIN ackTimers /\ now = ackTimers[c]
  /\ ackTimers' = mapDelete(ackTimers, c)
  /\ pendingAcks' = mapDelete(pendingAcks, c)
  /\ ackCalls' = noteSettled(noteHandled(ackCalls, c, "timeout", now), c, "reject", now)
  /\ lastOp' = Result("ackTimeout", "void")
  /\ Silent
  /\ UNCHANGED <<now, nextAckId, chanVars, relayVars, msgVars, presVars, authVars, permQuery>>

\* frame {type: ack, correlationId} read from a socket: handleMessage, handleAck
Relay_handleAck(socket, c) ==
  /\ wsState[socket] = "open"
  /\ IF c \in DOMAIN pendingAcks
     THEN /\ ackTimers' = mapDelete(ackTimers, c)                  \* clearTimeout
          /\ pendingAcks' = forgetPending(pendingAcks, c)
          /\ ackCalls' = noteSettled(noteHandled(ackCalls, c, "ack", now), c, "resolve", now)
     ELSE /\ ackCalls' = noteHandled(ackCalls, c, "ack", now)
          /\ UNCHANGED <<pendingAcks, ackTimers>>
  /\ lastOp' = Result("handleAck", "void")
  /\ Silent
  /\ UNCHANGED <<now, nextAckId, chanVars, relayVars, msgVars, presVars, authVars, permQuery>>

\* time passes; a due timer runs before the clock moves on
Relay_tick ==
  /\ \A c \in DOMAIN ackTimers : now + AckStep <= ackTimers[c]
  /\ now' = now + AckStep
  /\ lastOp' = Result("tick", "void")
  /\ Silent
  /\ UNCHANGED <<chanVars, relayVars, msgVars, presVars, authVars, permQuery, ackVars>>

\* =========================================================================
\* AuthService
\* =========================================================================
DEFAULT_TOKEN_EXPIRY == 86400000      \* 24 * 60 * 60 * 1000

\* String helpers over sequences of characters
endsWith(str, suffix) ==
  Len(str) >= Len(suffix) /\ SubSeq(str, Len(str) - Len(suffix) + 1, Len(str)) = suffix

startsWith(str, prefix) ==
  Len(str) >= Len(prefix) /\ SubSeq(str, 1, Len(prefix)) = prefix

\* a matcher without the ':*' wildcard
matchResourceExact(pattern, resource) == pattern = <<"*">> \/ pattern = resource

matchResource(pattern, resource) ==
  IF pattern = <<"*">> THEN TRUE
  ELSE IF pattern = resource THEN TRUE
  ELSE IF endsWith(pattern, <<":", "*">>)
       THEN startsWith(resource, SubSeq(pattern, 1, Len(pattern) - 1))   \* slice(0, -1)
       ELSE FALSE

\* the loop of checkPermissions, returning at the first authorising entry
RECURSIVE scanPermissions(_, _, _, _)
scanPermissions(permissions, i, resource, action) ==
  IF i > Len(permissions) THEN FALSE
  ELSE IF /\ matchResource(permissions[i].resource, resource)
          /\ (action \in permissions[i].actions \/ "admin" \in permissions[i].actions)
       THEN TRUE
       ELSE scanPermissions(permissions, i + 1, resource, action)

checkPermissions(permissions, resource, action) ==
  scanPermissions(permissions, 1, resource, action)

createDefaultPermissions ==
  << [resource |-> <<"c","h","a","n","n","e","l",":","*">>, actions |-> {"read", "write"}],
     [resource |-> <<"m","e","s","s","a","g","e",":","*">>, actions |-> {"read", "write"}],
     [resource |-> <<"p","r","e","s","e","n","c","e",":","*">>, actions |-> {"read", "write"}] >>

createAdminPermissions ==
  << [resource |-> <<"*">>, actions |-> {"admin"}] >>

\* A token string is modelled by what it decodes to: the payload, the iat/exp
\* claims jwt.sign adds (seconds), and the key it was signed with.
generateToken(agentId, permissions, t) ==
  [ form        |-> "jwt",
    signedWith  |-> "secret",
    agentId     |-> agentId,
    permissions |-> permissions,
    issuedAt    |-> t,
    expiresAt   |-> t + DEFAULT_TOKEN_EXPIRY,
    iat         |-> t \div 1000,
    exp         |-> (t \div 1000) + (DEFAULT_TOKEN_EXPIRY \div 1000) ]

\* jwt.verify: throws on a malformed string, a wrong signature, or when the
\* clock in seconds has reached exp
jwtVerifyThrows(token, t) ==
  \/ token.form # "jwt"
  \/ token.signedWith # "secret"
  \/ (t \div 1000) >= token.exp

NullPayload ==
  [agentId |-> None, permissions |-> << >>, issuedAt |-> NoTime, expiresAt |-> NoTime]

\* a verifyToken that trusts jwt.verify alone
verifyTokenJwtOnly(token, t) ==
  IF jwtVerifyThrows(token, t) THEN NullPayload
  ELSE [agentId |-> token.agentId, permissions |-> token.permissions,
        issuedAt |-> token.issuedAt, expiresAt |-> token.expiresAt]

\* verifyToken at clock t: the payload, or NullPayload for null
verifyToken(token, t) ==
  IF jwtVerifyThrows(token, t) THEN NullPayload
  ELSE IF token.expiresAt < t THEN NullPayload
  ELSE [agentId |-> token.agentId, permissions |-> token.permissions,
        issuedAt |-> token.issuedAt, expiresAt |-> token.expiresAt]

hasPermission(token, resource, action, t) ==
  LET payload == verifyToken(token, t)
  IN  IF payload = NullPayload THEN FALSE
      ELSE checkPermissions(payload.permissions, resource, action)

\* middleware(): 401 unless verifyToken yields a payload
middlewareAccepts(token, t) == verifyToken(token, t) # NullPayload

\* AgentService.validateToken: verifyToken, then the agent's current token
validateToken(token, t) ==
  LET payload == verifyToken(token, t)
  IN  /\ payload # NullPayload
      /\ payload.agentId \in DOMAIN agents
      /\ agents[payload.agentId].token = token

\* ------------------------------------------------------------------------
\* AgentService: registration and token replacement
\* ------------------------------------------------------------------------
AuthStep == DEFAULT_TOKEN_EXPIRY \div 2

PermissionSets == {createDefaultPermissions, createAdminPermissions}

Agent_register(name) ==
  /\ IF name \in DOMAIN agents
     THEN /\ lastOp' = Result("register", "AlreadyExists")
          /\ UNCHANGED authVars
     ELSE /\ LET token == generateToken(name, createDefaultPermissions, now)
             IN  /\ agents' = agents @@ (name :> [ status      |-> "offline",
                                                   permissions |-> createDefaultPermissions,
                                                   token       |-> token ])
                 /\ issued' = issued \cup {token}
          /\ lastOp' = Result("register", "ok")
  /\ Silent
  /\ UNCHANGED <<now, chanVars, relayVars, msgVars, presVars, permQuery, ackVars>>

Agent_updatePermissions(id, permissions) ==
  /\ IF id \notin DOMAIN agents
     THEN /\ lastOp' = Result("updatePermissions", "false")
          /\ UNCHANGED authVars
     ELSE /\ LET token == generateToken(id, permissions, now)
             IN  /\ agents' = [agents EXCEPT ![id].permissions = permissions,
                                             ![id].token = token]
                 /\ issued' = issued \cup {token}
          /\ lastOp' = Result("updatePermissions", "true")
  /\ Silent
  /\ UNCHANGED <<now, chanVars, relayVars, msgVars, presVars, permQuery, ackVars>>

Agent_refreshToken(id) ==
  /\ IF id \notin DOMAIN agents
     THEN /\ lastOp' = Result("refreshToken", "null")
          /\ UNCHANGED authVars
     ELSE /\ LET token == generateToken(id, agents[id].permissions, now)
             IN  /\ agents' = [agents EXCEPT ![id].token = token]
                 /\ issued' = issued \cup {token}
          /\ lastOp' = Result("refreshToken", "token")
  /\ Silent
  /\ UNCHANGED <<now, chanVars, relayVars, msgVars, presVars, permQuery, ackVars>>

\* time passes in the token model
AuthTick ==
  /\ now' = now + AuthStep
  /\ lastOp' = Result("tick", "void")
  /\ Silent
  /\ UNCHANGED <<chanVars, relayVars, msgVars, presVars, authVars, permQuery, ackVars>>

\* ------------------------------------------------------------------------
\* AuthService queries: the arguments and what the call returned
\* ------------------------------------------------------------------------
NoToken == [form |-> None, signedWith |-> None, agentId |-> None, permissions |-> << >>,
            issuedAt |-> NoTime, expiresAt |-> NoTime, iat |-> NoTime, exp |-> NoTime]

NoQuery == [fn |-> None, permissions |-> << >>, token |-> NoToken, resource |-> << >>,
            action |-> None, at |-> NoTime, payload |-> NullPayload, result |-> FALSE]

Auth_checkPermissions(permissions, resource, action) ==
  /\ permQuery' = [NoQuery EXCEPT !.fn = "checkPermissions",
                                  !.permissions = permissions,
                                  !.resource = resource,
                                  !.action = action,
                                  !.at = now,
                                  !.result = checkPermissions(permissions, resource, action)]
  /\ lastOp' = Result("checkPermissions", "bool")
  /\ Silent
  /\ UNCHANGED <<now, chanVars, relayVars, msgVars, presVars, authVars, ackVars>>

Auth_hasPermission(token, resource, action) ==
  /\ permQuery' = [NoQuery EXCEPT !.fn = "hasPermission",
                                  !.token = token,
                                  !.resource = resource,
                                  !.action = action,
                                  !.at = now,
                                  !.payload = verifyToken(token, now),
                                  !.result = hasPermission(token, resource, action, now)]
  /\ lastOp' = Result("hasPermission", "bool")
  /\ Silent
  /\ UNCHANGED <<now, chanVars, relayVars, msgVars, presVars, authVars, ackVars>>

\* a request carrying "Authorization: Bearer <token>" passes the middleware
\* (next() is called with req.agent = payload) or is answered 401
Auth_middleware(token) ==
  /\ permQuery' = [NoQuery EXCEPT !.fn = "middleware",
                                  !.token = token,
                                  !.at = now,
                                  !.payload = verifyToken(token, now),
                                  !.result = middlewareAccepts(token, now)]
  /\ lastOp' = Result("middleware", IF middlewareAccepts(token, now) THEN "next" ELSE "401")
  /\ Silent
  /\ UNCHANGED <<now, chanVars, relayVars, msgVars, presVars, authVars, ackVars>>

\* =========================================================================
\* Initial state: every service freshly constructed, clock at 0
\* =========================================================================
InitServices ==
  /\ now = 0
  /\ lastOp = Result("init", "void")
  /\ InitChannels
  /\ InitRelay
  /\ InitAcks
  /\ InitMessages
  /\ InitPresence
  /\ InitAgents

Init ==
  /\ InitServices
  /\ permQuery = NoQuery

\* =========================================================================
\* SpecAccess: the channel registry and its access rules
\* =========================================================================
RuleInputs ==
  {[principal |-> "*", principalType |-> "all", level |-> l] : l \in Levels}
  \cup {[principal |-> "a1", principalType |-> "agent", level |-> l] : l \in Levels}
  \cup {[principal |-> "a2", principalType |-> "agent", level |-> "write"]}
  \cup {[principal |-> "admins", principalType |-> "role", level |-> "admin"]}

NextAccess ==
  \/ \E name \in ChannelNames, type \in ChannelTypes :
       nextChannelId <= MaxChannels /\ Channel_create(name, type, "a1")
  \/ \E c \in ChannelIds, rule \in RuleInputs :
       TotalRules < MaxRules /\ Channel_addAccessRule(c, rule)

SpecAccess == Init /\ [][NextAccess]_vars

\* read < write < admin, as the specification states it
Rank(level) == CASE level = "read" -> 1 [] level = "write" -> 2 [] level = "admin" -> 3

\* the rules of a list whose principal matches the agent, as the specification states it
Matching(rules, agentId) ==
  {i \in 1 .. Len(rules) :
     \/ rules[i].principalType = "all"
     \/ rules[i].principalType = "agent" /\ rules[i].principal = agentId}

Least(S) == CHOOSE i \in S : \A j \in S : i <= j

\* C2: checkAccess returns the verdict of the first rule, in list order, whose
\* principal matches the agent: true iff that rule's level is at least the
\* required one; later rules are never consulted; defaultAccess decides only
\* when no rule matches.
C2_FirstMatchWins ==
  \A c \in DOMAIN channels, a \in Agents, required \in Levels :
    LET rules == channels[c].accessRules
        M     == Matching(rules, a)
    IN  checkAccess(c, a, required) =
          IF M # {}
          THEN Rank(rules[Least(M)].level) >= Rank(required)
          ELSE /\ channels[c].defaultAccess # None
               /\ Rank(channels[c].defaultAccess) >= Rank(required)

\* a later matching rule grants more than the first one, and is not consulted
C2_Witness ==
  \E c \in DOMAIN channels, a \in Agents :
    LET rules == channels[c].accessRules
        M     == Matching(rules, a)
    IN  /\ Cardinality(M) >= 2
        /\ \E j \in M : /\ Rank(rules[j].level) > Rank(rules[Least(M)].level)
                        /\ ~checkAccess(c, a, rules[j].level)

\* C3: in a channel whose defaultAccess is null, an agent matched by no rule
\* is refused read, write and admin; a freshly created private channel is
\* such a channel, also for its creator.
C3_ClosedByDefault ==
  \A c \in DOMAIN channels :
    /\ channels[c].defaultAccess = None =>
         \A a \in Agents, required \in Levels :
           Matching(channels[c].accessRules, a) = {} => ~checkAccess(c, a, required)
    /\ (channels[c].type = "private" /\ channels[c].accessRules = << >>) =>
         \A a \in Agents \cup {channels[c].createdBy}, required \in Levels :
           ~checkAccess(c, a, required)

\* a private channel that has a rule for another agent but none for its creator
C3_Witness ==
  \E c \in DOMAIN channels :
    /\ channels[c].type = "private"
    /\ channels[c].defaultAccess = None
    /\ channels[c].accessRules # << >>
    /\ Matching(channels[c].accessRules, channels[c].createdBy) = {}
    /\ ~checkAccess(c, channels[c].createdBy, "read")

\* ===================================================================
\* SpecSend: channel registry and message store, nobody connected
\* ===================================================================
SendRuleInputs ==
  { [principal |-> "*",  principalType |-> "all",   level |-> "read"],
    [principal |-> "a1", principalType |-> "agent", level |-> "write"] }

SendInputs ==
  {[targetId |-> c, targetType |-> "channel", text |-> <<"h", "i">>, threadId |-> th] :
      c \in ChannelIds, th \in {None, messageIdOf(1)}}
  \cup {[targetId |-> "a2", targetType |-> "agent", text |-> <<"h", "i">>, threadId |-> None]}
  \cup {[targetId |-> "*", targetType |-> "broadcast", text |-> <<"h", "i">>, threadId |-> None]}

HasRoom == Cardinality(DOMAIN messages) < MaxMsgs

NextSend ==
  \/ \E type \in {"private", "broadcast"} :
       nextChannelId <= MaxChannels /\ Channel_create("ops", type, "a1")
  \/ \E c \in ChannelIds, rule \in SendRuleInputs :
       TotalRules < MaxSendRules /\ Channel_addAccessRule(c, rule)
  \/ \E input \in SendInputs, senderId \in Agents :
       (HasRoom \/ ~sendAllowed(input, senderId)) /\ Message_send(input, senderId)

SpecSend == Init /\ [][NextSend]_vars

\* C1: a send that ends in PermissionDenied leaves the message table, the
\* channel index and the thread index as they were and hands nothing to the
\* relay; and every message a step stores for a channel was sent by an agent
\* whose access to that channel, checked before the step, satisfied write.
C1_DeniedSendLeavesNoTrace ==
  [][ /\ (lastOp'.op = "send" /\ lastOp'.result = "PermissionDenied")
          => (UNCHANGED msgVars /\ relayCalls' = {} /\ wire' = EmptyBag)
      /\ \A id \in DOMAIN messages' \ DOMAIN messages :
            messages'[id].targetType = "channel"
              => checkAccess(messages'[id].targetId, messages'[id].senderId, "write")
    ]_vars

\* a send to an existing private channel was refused while the tables were
\* not empty
C1_Witness ==
  /\ lastOp = Result("send", "PermissionDenied")
  /\ DOMAIN messages # {}
  /\ DOMAIN channelMessages # {}
  /\ \E c \in DOMAIN channels : channels[c].type = "private"

\* ===================================================================
\* SpecChannel: one private channel, its members, their sockets
\* ===================================================================
Ops == channelIdOf(3)          \* the id the first created channel gets

ChannelRuleInputs ==
  { [principal |-> "a2", principalType |-> "agent", level |-> "write"],
    [principal |-> "a1", principalType |-> "agent", level |-> "read"] }

ChannelSendInputs ==
  {[targetId |-> Ops, targetType |-> "channel", text |-> <<"h", "i">>, threadId |-> None]}

NextChannel ==
  \/ nextChannelId <= MaxChannels /\ Channel_create("ops", "private", "a1")
  \/ \E rule \in ChannelRuleInputs :
       TotalRules < MaxSendRules /\ Channel_addAccessRule(Ops, rule)
  \/ \E a \in Agents : Channel_join(Ops, a)
  \/ \E a \in Agents : Channel_leave(Ops, a)
  \/ \E s \in Sockets : Relay_handleConnection(s)
  \/ \E s \in Sockets, a \in Agents : Relay_agentConnected(s, a, None)
  \/ \E s \in Sockets, a \in Agents : Relay_channelJoined(s, a, Ops, None)
  \/ \E s \in Sockets, a \in Agents : Relay_channelLeft(s, a, Ops, None)
  \/ \E s \in Sockets : Relay_closing(s)
  \/ \E s \in Sockets : Relay_close(s)
  \/ \E input \in ChannelSendInputs, senderId \in Agents :
       (HasRoom \/ ~sendAllowed(input, senderId)) /\ Message_send(input, senderId)

SpecChannel == Init /\ [][NextChannel]_vars

Subscribers(c) == IF c \in DOMAIN subscriptions THEN subscriptions[c] ELSE {}

Reachable(a) == a \in DOMAIN connections /\ wsState[connections[a]] = "open"

MessageFramesTo(id) == {f.to : f \in {g \in BagToSet(wire') : g.frame = messageFrame(id)}}

Patterns  == { <<"*">>, <<"c", ":", "*">>, <<"c", ":", "g">>, <<"c", "*">> }
Resources == { <<"c", ":", "g">>, <<"c", ":">>, <<"c">>, <<"m", ":", "g">>, <<"c", "*">> }
ActionSets == { {}, {"read"}, {"admin"}, {"read", "write"} }
Actions   == {"read", "write", "admin"}

PermissionInputs == [resource : Patterns, actions : ActionSets]

PermissionLists == UNION {[1 .. n -> PermissionInputs] : n \in 0 .. MaxPerms}

\* tokens presented to hasPermission: minted by this service at clock 0,
\* minted under the same secret with a shorter payload expiry or a shorter
\* jwt lifetime, signed with another key, or not a token at all
TokenInputs ==
  LET minted == {generateToken("a1", ps, 0) : ps \in PermissionSets}
  IN  minted
      \cup {[tok EXCEPT !.expiresAt = AuthStep \div 2] : tok \in minted}
      \cup {[tok EXCEPT !.exp = AuthStep \div 2000] : tok \in minted}
      \cup {[tok EXCEPT !.signedWith = "other"] : tok \in minted}
      \cup {[tok EXCEPT !.form = "garbage"] : tok \in minted}

QueryInputs ==
  {[NoQuery EXCEPT !.fn = "checkPermissions?", !.permissions = ps,
                   !.resource = r, !.action = a] :
      ps \in PermissionLists, r \in Resources, a \in Actions}
  \cup {[NoQuery EXCEPT !.fn = "hasPermission?", !.token = tok,
                        !.resource = r, !.action = a] :
      tok \in TokenInputs, r \in Resources, a \in Actions}

InitPerm ==
  /\ InitServices
  /\ permQuery \in QueryInputs

NextPerm ==
  \/ /\ permQuery.fn = "checkPermissions?"
     /\ Auth_checkPermissions(permQuery.permissions, permQuery.resource, permQuery.action)
  \/ /\ permQuery.fn = "hasPermission?"
     /\ Auth_hasPermission(permQuery.token, permQuery.resource, permQuery.action)
  \/ /\ permQuery.fn = "hasPermission?"
     /\ now < MaxAuthTicks * AuthStep
     /\ AuthTick

SpecPerm == InitPerm /\ [][NextPerm]_vars

\* a pattern matches a resource, as the specification states it
PatternMatches(pattern, resource) ==
  \/ pattern = <<"*">>
  \/ pattern = resource
  \/ /\ Len(pattern) >= 2
     /\ pattern[Len(pattern) - 1] = ":" /\ pattern[Len(pattern)] = "*"
     /\ Len(resource) >= Len(pattern) - 1
     /\ \A i \in 1 .. Len(pattern) - 1 : resource[i] = pattern[i]

\* C5: checkPermissions is true exactly when some permission of the list has
\* a pattern matching the resource and an action set holding the requested
\* action or admin; the list [{resource: '*', actions: ['admin']}]
\* authorises every resource and action.
C5_CheckPermissionsExact ==
  permQuery.fn = "checkPermissions" =>
    /\ permQuery.result =
         (\E i \in 1 .. Len(permQuery.permissions) :
            /\ PatternMatches(permQuery.permissions[i].resource, permQuery.resource)
            /\ \/ permQuery.action \in permQuery.permissions[i].actions
               \/ "admin" \in permQuery.permissions[i].actions)
    /\ permQuery.permissions = createAdminPermissions => permQuery.result

\* authorised through a ':*' pattern by the second permission of the list,
\* the first one matching the resource without granting the action
C5_Witness ==
  /\ permQuery.fn = "checkPermissions"
  /\ permQuery.result
  /\ Len(permQuery.permissions) = 2
  /\ permQuery.permissions[1] = [resource |-> <<"c", ":", "g">>, actions |-> {"read"}]
  /\ permQuery.permissions[2].resource = <<"c", ":", "*">>
  /\ permQuery.resource = <<"c", ":", "g">>
  /\ permQuery.action = "write"
  /\ permQuery.action \notin permQuery.permissions[2].actions

\* C6: for a token that fails to decode, or whose expiresAt is earlier than
\* the clock, verifyToken yields null and hasPermission is false, whatever
\* the permission list, resource and action.
C6_FailsClosed ==
  permQuery.fn = "hasPermission" =>
    ((jwtVerifyThrows(permQuery.token, permQuery.at) \/ permQuery.token.expiresAt < permQuery.at)
       => (permQuery.payload = NullPayload /\ permQuery.result = FALSE))

\* an admin token that still decodes, refused on its payload expiry alone
C6_Witness ==
  /\ permQuery.fn = "hasPermission"
  /\ permQuery.token.permissions = createAdminPermissions
  /\ ~jwtVerifyThrows(permQuery.token, permQuery.at)
  /\ permQuery.token.expiresAt < permQuery.at
  /\ permQuery.payload = NullPayload
  /\ permQuery.result = FALSE

\* ===================================================================
\* SpecAuth: registration, token replacement, authenticated requests
\* ===================================================================
CanIssue == Cardinality(issued) < MaxIssued

NextAuth ==
  \/ \E name \in Agents :
       (CanIssue \/ name \in DOMAIN agents) /\ Agent_register(name)
  \/ \E id \in Agents, permissions \in PermissionSets :
       (CanIssue \/ id \notin DOMAIN agents) /\ Agent_updatePermissions(id, permissions)
  \/ \E id \in Agents :
       (CanIssue \/ id \notin DOMAIN agents) /\ Agent_refreshToken(id)
  \/ \E token \in issued : Auth_middleware(token)
  \/ now < MaxAuthTicks * AuthStep /\ AuthTick

SpecAuth == Init /\ [][NextAuth]_vars

\* the agent the token was issued to holds another token now
Replaced(token) ==
  token.agentId \in DOMAIN agents /\ agents[token.agentId].token # token

\* C7: a request that presents a token replaced by updatePermissions or
\* refreshToken is not authenticated.
C7_ReplacedTokenRejected ==
  [][ (lastOp'.op = "middleware" /\ Replaced(permQuery'.token))
        => permQuery'.result = FALSE ]_vars

\* the token minted at registration passed the middleware after a refresh
\* had replaced it
C7_Witness ==
  /\ lastOp = Result("middleware", "next")
  /\ permQuery.fn = "middleware" /\ permQuery.result
  /\ Replaced(permQuery.token)
  /\ permQuery.token.issuedAt < agents[permQuery.token.agentId].token.issuedAt
  /\ ~validateToken(permQuery.token, now)

\* ===================================================================
\* SpecMessage: the message store and its mutators
\* ===================================================================
SentText   == <<"h", "i", " ", "@", "a", "2">>
EditedText == <<"h", "i">>
Texts      == {SentText, EditedText, << >>}

MessageSendInputs ==
  {[targetId |-> "a2", targetType |-> "agent", text |-> SentText, threadId |-> None]}

NextMessage ==
  \/ \E input \in MessageSendInputs, senderId \in Agents :
       HasRoom /\ Message_send(input, senderId)
  \/ \E id \in MessageIds, editorId \in Agents : Message_edit(id, EditedText, editorId)
  \/ \E id \in MessageIds, deleterId \in Agents : Message_delete(id, deleterId)
  \/ \E id \in MessageIds : Message_markDelivered(id, "a2")
  \/ \E id \in MessageIds : Message_markRead(id, "a2")

SpecMessage == Init /\ [][NextMessage]_vars

\* C8: every stored message verifies, its signature being the one signMessage
\* computes from its id, sender, content and sentAt; a copy of it whose
\* content.text alone was replaced does not verify.
C8_SignatureInvariant ==
  \A id \in DOMAIN messages :
    LET m == messages[id]
    IN  /\ verifySignature(m)
        /\ m.signature = signMessage(m.id, m.senderId, m.content, m.sentAt)
        /\ \A text \in Texts :
              text # m.content.text
                => ~verifySignature([m EXCEPT !.content = [m.content EXCEPT !.text = text]])

\* a message that was edited, read and deleted, next to one that was not
C8_Witness ==
  \E id \in DOMAIN messages, other \in DOMAIN messages :
    /\ messages[id].editedAt # NoTime
    /\ messages[id].content.text = EditedText
    /\ messages[id].deliveryStatus = "read"
    /\ messages[id].deletedAt # NoTime
    /\ messages[other].editedAt = NoTime
    /\ verifySignature(messages[id])

statusRank(status) == CASE status = "sent" -> 1 [] status = "delivered" -> 2 [] status = "read" -> 3

\* C21: no step lowers the deliveryStatus of a stored message in the order
\* sent < delivered < read; a markDelivered of a message whose status is
\* delivered or read leaves the store as it is, one of a message that is
\* sent makes it delivered, and markRead makes it read.
C21_DeliveryStatusMonotone ==
  [][ /\ \A id \in DOMAIN messages :
           /\ id \in DOMAIN messages'
           /\ statusRank(messages'[id].deliveryStatus) >= statusRank(messages[id].deliveryStatus)
      /\ \A id \in DOMAIN messages :
           /\ Message_markDelivered(id, "a2")
                => IF messages[id].deliveryStatus = "sent"
                   THEN messages' = [messages EXCEPT ![id].deliveryStatus = "delivered"]
                   ELSE messages' = messages
           /\ Message_markRead(id, "a2")
                => messages' = [messages EXCEPT ![id].deliveryStatus = "read"]
    ]_vars

\* a message that was read, then edited and deleted by its sender, after a
\* markDelivered that came too late to change it
C21_Witness ==
  /\ lastOp = Result("markDelivered", "void")
  /\ \E id \in DOMAIN messages, other \in DOMAIN messages :
       /\ messages[id].deliveryStatus = "read"
       /\ messages[id].editedAt # NoTime /\ messages[id].deletedAt # NoTime
       /\ messages[other].deliveryStatus = "read"
       /\ messages[other].editedAt = NoTime /\ messages[other].deletedAt = NoTime

\* ===================================================================
\* SpecPresence: one agent, its socket, the presence routes, the checker
\* ===================================================================
NextPresence ==
  \/ Relay_handleConnection(1)
  \/ Relay_agentConnected(1, "a1", None)
  \/ Relay_close(1)
  \/ Presence_connect("a1")
  \/ Presence_disconnect("a1")
  \/ \E status \in PresenceStatuses : Presence_setStatus("a1", status)
  \/ Presence_heartbeat("a1")
  \/ Presence_startActivity("a1")
  \/ Presence_endActivity("a1")
  \/ Presence_checker
  \/ now < MaxTicks * TimeStep /\ Tick

SpecPresence == Init /\ [][NextPresence]_vars

\* when the checker last ran (0: not yet)
lastRun == nextDue - HEARTBEAT_INTERVAL

\* the agent connected at quiet[a] and has made no presence call since
Quiet(a) == quiet[a] # NoTime

\* C9: an agent that connected and then made no presence call is idle once
\* the checker has run more than 60 s after the connect, and once the
\* checker has run more than 120 s after the connect it is offline and its
\* record is gone from the presence set.
C9_HeartbeatTimeout ==
  \A a \in Agents :
    Quiet(a) =>
      /\ (lastRun - quiet[a] > IDLE_TIMEOUT /\ lastRun - quiet[a] <= OFFLINE_TIMEOUT)
           => (a \in DOMAIN presences /\ presences[a].status = "idle")
      /\ lastRun - quiet[a] > OFFLINE_TIMEOUT => a \notin DOMAIN presences

\* the checker has run 150 s after the connect of a silent agent, whose
\* record is still in the set, idle, with a heartbeat stamped by the checker
C9_Witness ==
  /\ quiet["a1"] = 0
  /\ lastRun = 5 * HEARTBEAT_INTERVAL
  /\ "a1" \in DOMAIN presences
  /\ presences["a1"].status = "idle"
  /\ presences["a1"].lastHeartbeat = 3 * HEARTBEAT_INTERVAL

\* C10: no agent has a connection registered in the relay and a presence
\* record whose status is offline.
C10_NeverOfflineWhileConnected ==
  \A a \in DOMAIN connections :
    a \in DOMAIN presences => presences[a].status # "offline"

\* the agent's socket is open and registered, its record says offline
C10_Witness ==
  /\ "a1" \in DOMAIN connections
  /\ wsState[connections["a1"]] = "open"
  /\ "a1" \in DOMAIN presences
  /\ presences["a1"].status = "offline"
  /\ lastOp = Result("setStatus", "true")

\* C24: a heartbeat for an agent with a presence record stores the current
\* time as lastHeartbeat, turns the status into online exactly when it was
\* idle (busy, dnd, offline and online stay), changes nothing else and
\* answers true; for an agent without a record it answers false and the
\* presence table stays as it was.
C24_Heartbeat ==
  [][ Presence_heartbeat("a1") =>
        IF "a1" \in DOMAIN presences
        THEN /\ DOMAIN presences' = DOMAIN presences
             /\ presences'["a1"].lastHeartbeat = now
             /\ presences'["a1"].status =
                  (IF presences["a1"].status = "idle" THEN "online"
                   ELSE presences["a1"].status)
             /\ presences'["a1"].connectedAt = presences["a1"].connectedAt
             /\ lastOp'.result = "true"
        ELSE /\ presences' = presences
             /\ lastOp'.result = "false"
    ]_vars

\* the heartbeat of an agent the checker had set idle: it is online again,
\* stamped with the current time, and the change was broadcast
C24_Witness ==
  /\ lastOp = Result("heartbeat", "true")
  /\ "a1" \in DOMAIN presences
  /\ presences["a1"].status = "online"
  /\ presences["a1"].lastHeartbeat = now
  /\ presences["a1"].connectedAt < now
  /\ relayCalls = {Call("broadcast", "*", presenceFrame("a1", "online"))}

\* C25: a disconnect of an agent with a presence record removes the record
\* and hands exactly one offline broadcast to the relay, written once to
\* every open connection; a disconnect of an agent without a record (a
\* second disconnect, or one never connected) leaves the presence table as
\* it was and emits nothing.
C25_DisconnectOnce ==
  [][ Presence_disconnect("a1") =>
        IF "a1" \in DOMAIN presences
        THEN /\ presences' = [a \in DOMAIN presences \ {"a1"} |-> presences[a]]
             /\ relayCalls' = {Call("broadcast", "*", presenceFrame("a1", "offline"))}
             /\ \A f \in BagToSet(wire') :
                  f.frame = presenceFrame("a1", "offline") /\ CopiesIn(f, wire') = 1
             /\ \A a \in DOMAIN connections :
                  wsState[connections[a]] = "open" =>
                    \E f \in BagToSet(wire') : f.to = a /\ f.socket = connections[a]
        ELSE /\ presences' = presences
             /\ relayCalls' = {}
             /\ wire' = EmptyBag
    ]_vars

\* the agent, registered on an open socket, has just been disconnected: its
\* record is gone and the offline frame was written once to its socket
C25_Witness ==
  /\ lastOp = Result("disconnect", "void")
  /\ "a1" \notin DOMAIN presences
  /\ "a1" \in DOMAIN connections /\ wsState[connections["a1"]] = "open"
  /\ relayCalls = {Call("broadcast", "*", presenceFrame("a1", "offline"))}
  /\ wire = SetToBag({[to |-> "a1", socket |-> connections["a1"],
                       frame |-> presenceFrame("a1", "offline")]})

\* ===================================================================
\* SpecAck: sendWithAck calls, their timers, ack frames from one socket
\* ===================================================================
CorrelationIds == {correlationIdOf(n) : n \in 1 .. MaxAckCalls + 1}

NextAck ==
  \/ Relay_handleConnection(1)
  \/ now = 0 /\ Relay_agentConnected(1, "a1", None)
  \/ Relay_close(1)
  \/ nextAckId <= MaxAckCalls /\ Relay_sendWithAck("a1", ACK_TIMEOUT)
  \/ \E c \in CorrelationIds : Relay_handleAck(1, c)
  \/ \E c \in CorrelationIds : Relay_ackTimeout(c)
  \/ now < MaxAckTicks * AckStep /\ Relay_tick

SpecAck == Init /\ [][NextAck]_vars

Outcomes(c) == [i \in 1 .. Len(ackCalls[c].settled) |-> ackCalls[c].settled[i].how]

\* C11: a sendWithAck call invokes exactly one of resolve and reject, once:
\* resolve when an ack frame for its correlation id is handled before its
\* timer has run, reject when the timer runs first, which it does when
\* timeoutMs has elapsed; whatever is handled for the id after that (a late
\* ack, a second ack) settles nothing, the timer of a resolved call never
\* runs, and no call is left unsettled once its timeout has passed.
C11_SettlesExactlyOnce ==
  \A c \in DOMAIN ackCalls :
    LET call == ackCalls[c]
    IN  /\ Len(call.settled) <= 1
        /\ Outcomes(c) = CASE call.first = None      -> << >>
                           [] call.first = "ack"     -> << "resolve" >>
                           [] call.first = "timeout" -> << "reject" >>
        /\ "timeout" \notin call.later
        /\ \A i \in 1 .. Len(call.settled) :
              /\ call.settled[i].how = "reject" => call.settled[i].at = call.deadline
              /\ call.settled[i].how = "resolve" => call.settled[i].at <= call.deadline
        /\ now > call.deadline => Len(call.settled) = 1

\* one call resolved by the first of several acks, another rejected by its
\* timer and acked afterwards
C11_Witness ==
  \E c \in DOMAIN ackCalls, d \in DOMAIN ackCalls :
    /\ ackCalls[c].first = "ack" /\ ackCalls[c].later = {"ack"}
    /\ Outcomes(c) = << "resolve" >>
    /\ ackCalls[d].first = "timeout" /\ ackCalls[d].later = {"ack"}
    /\ Outcomes(d) = << "reject" >>

\* C12: the pending-ack table holds a correlation id exactly while the call
\* that created it has invoked neither resolve nor reject, whether or not
\* its frame could be written to the target; a timer is armed for exactly
\* the ids in the table.
C12_PendingExactlyWhileUnsettled ==
  /\ DOMAIN pendingAcks \subseteq DOMAIN ackCalls
  /\ DOMAIN ackTimers = DOMAIN pendingAcks
  /\ \A c \in DOMAIN ackCalls : (c \in DOMAIN pendingAcks) = (ackCalls[c].settled = << >>)

\* a call whose target had no open connection was rejected by its timer and
\* is gone from the table, while a later call is still pending
C12_Witness ==
  \E c \in DOMAIN ackCalls, d \in DOMAIN pendingAcks :
    /\ ~ackCalls[c].written
    /\ Outcomes(c) = << "reject" >>
    /\ ackCalls[c].first = "timeout"
    /\ c \notin DOMAIN pendingAcks
    /\ ackCalls[d].written

\* ===================================================================
\* SpecRelay: the relay alone: sockets, registrations, subscriptions, sends
\* ===================================================================
RelayChannels == {channelIdOf(1), channelIdOf(2)}

PayloadFrames == {messageFrame(messageIdOf(1)), messageFrame(messageIdOf(2))}

NextRelay ==
  \/ \E s \in Sockets : Relay_handleConnection(s)
  \/ \E s \in Sockets, a \in Agents : Relay_agentConnected(s, a, None)
  \/ \E s \in Sockets, a \in Agents, c \in RelayChannels : Relay_channelJoined(s, a, c, None)
  \/ \E s \in Sockets, a \in Agents, c \in RelayChannels : Relay_channelLeft(s, a, c, None)
  \/ \E s \in Sockets : Relay_closing(s)
  \/ \E s \in Sockets : Relay_close(s)
  \/ Relay_stop
  \/ \E a \in Agents, f \in PayloadFrames : Relay_sendToAgent(a, f)
  \/ \E c \in RelayChannels, f \in PayloadFrames : Relay_broadcastToChannel(c, f)

SpecRelay == Init /\ [][NextRelay]_vars

\* the entries of a bag of written frames that carry the frame to the agent
CopiesTo(bag, a, frame) == {f \in BagToSet(bag) : f.to = a /\ f.frame = frame}

\* C13: a call of broadcastToChannel writes the frame once to the registered
\* socket of every agent that is, at that moment, in the channel's
\* subscription set with a registered connection whose socket is open, and
\* writes it to nobody else; a call of sendToAgent writes once to such a
\* target and nothing otherwise; a payload frame is only ever written in
\* the step of the call that carries it, so nothing is kept for later.
C13_BroadcastReachesOpenSubscribersOnce ==
  [][ /\ \A call \in relayCalls', a \in Agents :
           LET subscribed == \/ call.method = "broadcastToChannel"
                                /\ call.target \in DOMAIN subscriptions'
                                /\ a \in subscriptions'[call.target]
                             \/ call.method = "sendToAgent" /\ call.target = a
               open       == a \in DOMAIN connections' /\ wsState'[connections'[a]] = "open"
               here       == [to |-> a, socket |-> connections'[a], frame |-> call.frame]
           IN  call.method \in {"broadcastToChannel", "sendToAgent"}
                 => IF subscribed /\ open
                    THEN CopiesTo(wire', a, call.frame) = {here} /\ CopiesIn(here, wire') = 1
                    ELSE CopiesTo(wire', a, call.frame) = {}
      /\ \A f \in BagToSet(wire') :
           f.frame \in PayloadFrames => \E call \in relayCalls' : call.frame = f.frame
    ]_vars

\* a broadcast to a channel with both agents subscribed reached a1 on its
\* open socket and wrote nothing for a2, whose socket is closing
C13_Witness ==
  /\ lastOp = Result("broadcastToChannel", "void")
  /\ \E c \in DOMAIN subscriptions, f \in PayloadFrames :
       /\ subscriptions[c] = {"a1", "a2"}
       /\ relayCalls = {Call("broadcastToChannel", c, f)}
       /\ DOMAIN connections = {"a1", "a2"}
       /\ wsState[connections["a1"]] = "open"
       /\ wsState[connections["a2"]] = "closing"
       /\ wire = SetToBag({[to |-> "a1", socket |-> connections["a1"], frame |-> f]})

\* the socket whose 'close' event the step handles
ClosedBy(s) == wsState[s] # "none" /\ wsState'[s] = "none"

\* C14: when the close event of a socket is handled, every agent registered
\* to that socket leaves the connection map and every subscription set, and
\* PresenceService.disconnect runs for it: its offline notice is broadcast
\* if it had a record, and it has no presence record afterwards.
C14_CloseRemovesAgent ==
  [][ \A s \in Sockets, a \in DOMAIN connections :
        (lastOp'.op = "close" /\ ClosedBy(s) /\ connections[a] = s)
          => /\ a \notin DOMAIN connections'
             /\ \A c \in DOMAIN subscriptions' : a \notin subscriptions'[c]
             /\ DOMAIN subscriptions' = DOMAIN subscriptions
             /\ a \in DOMAIN presences
                  => Call("broadcast", "*", presenceFrame(a, "offline")) \in relayCalls'
             /\ a \notin DOMAIN presences'
    ]_vars

\* the close of a1's socket was handled: its offline notice went out to a2,
\* who is still registered and subscribed, and a1 is in no table any more
C14_Witness ==
  /\ lastOp = Result("close", "void")
  /\ relayCalls = {Call("broadcast", "*", presenceFrame("a1", "offline"))}
  /\ DOMAIN connections = {"a2"} /\ DOMAIN presences = {"a2"}
  /\ DOMAIN subscriptions = RelayChannels
  /\ \A c \in RelayChannels : subscriptions[c] = {"a2"}
  /\ \E f \in BagToSet(wire) : f.to = "a2"

\* ===================================================================
\* SpecOrder: messages to one public channel, subscribers coming and going
\* ===================================================================
General == channelIdOf(1)      \* the default channel every agent may write to

OrderSendInputs ==
  {[targetId |-> General, targetType |-> "channel", text |-> <<"h", "i">>, threadId |-> None]}

NextOrder ==
  \/ \E s \in Sockets : Relay_handleConnection(s)
  \/ \E s \in Sockets, a \in Agents : Relay_agentConnected(s, a, None)
  \/ \E s \in Sockets, a \in Agents : Relay_channelJoined(s, a, General, None)
  \/ \E s \in Sockets, a \in Agents : Relay_channelLeft(s, a, General, None)
  \/ \E s \in Sockets : Relay_close(s)
  \/ \E input \in OrderSendInputs, senderId \in Agents :
       HasRoom /\ Message_send(input, senderId)

SpecOrder == Init /\ [][NextOrder]_vars

\* position of a message in the send order of its channel (0: not sent)
RECURSIVE sendIndex(_, _)
sendIndex(ids, id) ==
  IF ids = << >> THEN 0
  ELSE IF Head(ids) = id THEN 1
  ELSE IF sendIndex(Tail(ids), id) = 0 THEN 0
  ELSE 1 + sendIndex(Tail(ids), id)

\* the last operation wrote the frame of message id to agent a
WrittenTo(a, id) ==
  \E f \in BagToSet(wire) : f.to = a /\ f.frame.type = "message" /\ f.frame.id = id

\* id1 was sent to the channel before id2
SentBefore(c, id1, id2) ==
  /\ c \in DOMAIN channelMessages
  /\ sendIndex(channelMessages[c], id1) > 0
  /\ sendIndex(channelMessages[c], id1) < sendIndex(channelMessages[c], id2)

\* C15: a send to a channel writes its frame, in that very step, to every
\* subscriber that has a registered open connection, so an agent that stays
\* subscribed on the same connection across two sends gets both; and once
\* the frame of the later of two messages of a channel has been written to
\* an agent, the frame of the earlier one is never written to it again.
C15_DeliveredInSendOrder ==
  /\ [][ \A id \in DOMAIN messages' \ DOMAIN messages :
           \A a \in Subscribers(messages'[id].targetId) :
             (messages'[id].targetType = "channel" /\ Reachable(a))
               => CopiesIn([to |-> a, socket |-> connections[a],
                            frame |-> [type |-> "message", id |-> id]], wire') = 1
       ]_vars
  /\ \A a \in Agents, id1, id2 \in MessageIds :
       [](  (WrittenTo(a, id2) /\ SentBefore(General, id1, id2))
              => [] ~WrittenTo(a, id1) )

\* both agents subscribed on open sockets, two messages stored for the
\* channel, and the frame of the second has just been written to both
C15_Witness ==
  /\ lastOp = Result("send", "ok")
  /\ DOMAIN connections = {"a1", "a2"}
  /\ \A a \in Agents : wsState[connections[a]] = "open"
  /\ Subscribers(General) = {"a1", "a2"}
  /\ General \in DOMAIN channelMessages
  /\ channelMessages[General] = << messageIdOf(1), messageIdOf(2) >>
  /\ \A a \in Agents : WrittenTo(a, messageIdOf(2)) /\ ~WrittenTo(a, messageIdOf(1))

\* ===================================================================
\* SpecMembers: the channel registry under every ChannelService mutation
\* ===================================================================
MemberRuleInputs == { [principal |-> "a2", principalType |-> "agent", level |-> "write"] }

MetadataUpdates == { [isArchived |-> TRUE] }

NextMembers ==
  \/ nextChannelId <= MaxChannels /\ Channel_create("ops", "private", "a1")
  \/ \E c \in ChannelIds, rule \in MemberRuleInputs :
       TotalRules < MaxSendRules /\ Channel_addAccessRule(c, rule)
  \/ \E c \in ChannelIds, a \in Agents : Channel_join(c, a)
  \/ \E c \in ChannelIds, a \in Agents : Channel_leave(c, a)
  \/ \E c \in ChannelIds, updates \in MetadataUpdates : Channel_update(c, updates)
  \/ \E c \in ChannelIds : Channel_delete(c)

SpecMembers == Init /\ [][NextMembers]_vars

\* C16: every channel in the registry has a membership set, and its
\* memberCount is the number of agents in that set.
C16_MemberCountIsSetSize ==
  \A c \in DOMAIN channels :
    /\ c \in DOMAIN memberships
    /\ channels[c].memberCount = Cardinality(memberships[c])

\* after a default channel was deleted: the created channel, with an added
\* rule and updated metadata, has one member; the other default channel had
\* two and one of them left
C16_Witness ==
  /\ lastOp = Result("leave", "true")
  /\ channelIdOf(1) \notin DOMAIN channels
  /\ channelIdOf(3) \in DOMAIN channels
  /\ memberships[channelIdOf(3)] = {"a2"}
  /\ channels[channelIdOf(3)].memberCount = 1
  /\ channels[channelIdOf(3)].metadata.isArchived
  /\ Len(channels[channelIdOf(3)].accessRules) > 0
  /\ memberships[channelIdOf(2)] = {"a1"}
  /\ "a2" \notin subscriptions[channelIdOf(2)]

\* C17: a join of an existing channel by an agent that checkAccess refuses
\* read ends in PermissionDenied, and a join that ends so leaves the
\* membership sets, the channel objects (memberCount included) and the
\* relay's subscription sets as they were.
C17_DeniedJoinChangesNothing ==
  [][ /\ \A c \in ChannelIds, a \in Agents :
           (Channel_join(c, a) /\ c \in DOMAIN channels /\ ~checkAccess(c, a, "read"))
             => lastOp' = Result("join", "PermissionDenied")
      /\ lastOp' = Result("join", "PermissionDenied")
           => /\ memberships' = memberships
              /\ channels' = channels
              /\ subscriptions' = subscriptions
    ]_vars

\* a join of the private channel was refused while a2, admitted by a rule,
\* is its only member and subscriber
C17_Witness ==
  /\ lastOp = Result("join", "PermissionDenied")
  /\ channelIdOf(3) \in DOMAIN channels
  /\ ~checkAccess(channelIdOf(3), "a1", "read")
  /\ memberships[channelIdOf(3)] = {"a2"}
  /\ channels[channelIdOf(3)].memberCount = 1
  /\ subscriptions[channelIdOf(3)] = {"a2"}

\* C18: a join by an agent that is already a member changes neither the
\* membership set nor memberCount, and returns true as long as the agent may
\* read; a first join adds the agent and raises memberCount by one. A leave
\* of an existing channel returns true for every agent, whatever the access
\* rules say, removes the agent from the set, and changes nothing when the
\* agent is not a member.
C18_JoinAndLeaveIdempotent ==
  [][ \A c \in DOMAIN channels, a \in Agents :
        /\ (Channel_join(c, a) /\ a \in memberships[c])
             => /\ memberships' = memberships /\ channels' = channels
                /\ subscriptions' = subscriptions
                /\ checkAccess(c, a, "read") => lastOp' = Result("join", "true")
        /\ (Channel_join(c, a) /\ a \notin memberships[c] /\ lastOp' = Result("join", "true"))
             => /\ memberships'[c] = memberships[c] \cup {a}
                /\ channels'[c].memberCount = channels[c].memberCount + 1
        /\ Channel_leave(c, a)
             => /\ lastOp' = Result("leave", "true")
                /\ memberships'[c] = memberships[c] \ {a}
                /\ channels'[c].memberCount = Cardinality(memberships[c] \ {a})
                /\ a \notin memberships[c]
                     => (memberships' = memberships /\ channels' = channels
                         /\ subscriptions' = subscriptions)
    ]_vars

\* only the private channel is left, it has no rule, so nobody may read it,
\* and a leave of it has just returned true
C18_Witness ==
  /\ lastOp = Result("leave", "true")
  /\ DOMAIN channels = {channelIdOf(3)}
  /\ channels[channelIdOf(3)].accessRules = << >>
  /\ \A a \in Agents : ~checkAccess(channelIdOf(3), a, "read")
  /\ memberships[channelIdOf(3)] = {}

\* ===================================================================
\* SpecRead: messages of one channel and one thread, deleted and read
\* ===================================================================
ThreadRoot == messageIdOf(1)

ReadSendInputs ==
  {[targetId |-> General, targetType |-> "channel", text |-> SentText, threadId |-> t] :
     t \in {None, ThreadRoot}}

ReadLimits == {0, 1, 50}

ReadCursors == {None, messageIdOf(2), messageIdOf(0)}     \* msg-0 is never stored

ReadPages == { <<50, None>>, <<50, messageIdOf(2)>>, <<1, messageIdOf(0)>>, <<0, None>> }

ReadQueries == { <<"H", "I">>, << >> }

ReadOptions ==
  { [channelId |-> None, senderId |-> None, limit |-> 0],
    [channelId |-> General, senderId |-> "a1", limit |-> 1] }

NextRead ==
  \/ \E input \in ReadSendInputs : HasRoom /\ Message_send(input, "a1")
  \/ \E id \in MessageIds, deleterId \in Agents : Message_delete(id, deleterId)
  \/ Message_edit(ThreadRoot, EditedText, "a1")
  \/ \E id \in MessageIds : Message_getById(id)
  \/ \E page \in ReadPages : Message_getChannelMessages(General, page[1], page[2])
  \/ Message_getThreadMessages(ThreadRoot)
  \/ \E options \in ReadOptions : Message_search(<<"H", "I">>, options)
  \/ now < MaxReadTicks * TimeStep /\ Tick

SpecRead == Init /\ [][NextRead]_vars

\* the ids of the messages a read path returned
IdsOf(ms) == {ms[i].id : i \in DOMAIN ms}

\* C20: a message whose deletedAt is set is in no answer of
\* getChannelMessages, getThreadMessages or search, whatever the arguments,
\* while getById answers with the stored message, deletedAt included; a
\* message that is not deleted is in the answer for its channel; and
\* deletedAt, once set, stays set.
C20_DeletedIsOnlyReadById ==
  /\ [](\A id \in DOMAIN messages :
          LET m == messages[id]
          IN  /\ m.deletedAt # NoTime
                   => /\ \A limit \in ReadLimits, before \in ReadCursors :
                           id \notin IdsOf(getChannelMessages(m.targetId, limit, before))
                      /\ \A t \in MessageIds : id \notin IdsOf(getThreadMessages(t))
                      /\ \A query \in ReadQueries, options \in ReadOptions :
                           id \notin IdsOf(search(query, options))
                      /\ getById(id) = m /\ getById(id).deletedAt # NoTime
              /\ m.deletedAt = NoTime
                   => /\ id \in IdsOf(getChannelMessages(m.targetId, 50, None))
                      /\ m.threadId # None => id \in IdsOf(getThreadMessages(m.threadId)))
  /\ [](lastOp.op \in {"getChannelMessages", "getThreadMessages", "search"}
          => \A id \in IdsOf(lastOp.result) :
               id \in DOMAIN messages /\ messages[id].deletedAt = NoTime)
  /\ []((lastOp.op = "getById" /\ lastOp.args[1] \in DOMAIN messages)
          => lastOp.result = messages[lastOp.args[1]])
  /\ [][ \A id \in DOMAIN messages :
           messages[id].deletedAt # NoTime => messages'[id].deletedAt # NoTime ]_vars

\* two messages of the channel and the thread, the first deleted by its
\* sender: the search has just answered with the second alone
C20_Witness ==
  /\ lastOp.op = "search"
  /\ DOMAIN messages = {messageIdOf(1), messageIdOf(2)}
  /\ messages[messageIdOf(1)].deletedAt # NoTime
  /\ messages[messageIdOf(2)].deletedAt = NoTime
  /\ messages[messageIdOf(1)].threadId = ThreadRoot
  /\ messages[messageIdOf(2)].threadId = ThreadRoot
  /\ messages[messageIdOf(1)].content.text = messages[messageIdOf(2)].content.text
  /\ IdsOf(lastOp.result) = {messageIdOf(2)}
  /\ IdsOf(getThreadMessages(ThreadRoot)) = {messageIdOf(2)}
  /\ getById(messageIdOf(1)).deletedAt # NoTime

\* the messages are in descending sentAt order
Descending(ms) == \A i, j \in DOMAIN ms : i < j => ms[i].sentAt >= ms[j].sentAt

FailureSendInputs ==
  {[targetId |-> c, targetType |-> "channel", text |-> EditedText, threadId |-> None] :
      c \in ChannelIds}

Announcements == channelIdOf(2)

NextFailure ==
  \/ nextChannelId <= MaxChannels /\ Channel_create("ops", "private", "a1")
  \/ Channel_delete(Announcements)
  \/ \E c \in ChannelIds, a \in Agents : Channel_join(c, a)
  \/ \E input \in FailureSendInputs, senderId \in Agents :
       (DOMAIN messages = {} \/ ~sendAllowed(input, senderId))
         /\ Message_send(input, senderId)
  \/ \E id \in MessageIds, editorId \in Agents : Message_edit(id, EditedText, editorId)
  \/ \E id \in MessageIds, deleterId \in Agents : Message_delete(id, deleterId)

SpecFailure == Init /\ [][NextFailure]_vars

\* C23: send, join, edit and delete answer PermissionDenied when the channel
\* or message exists and the agent lacks the permission, and answer
\* something other than PermissionDenied when the channel or message they
\* name does not exist.
C23_DeniedDistinctFromNotFound ==
  [][ /\ \A input \in FailureSendInputs, senderId \in Agents :
           Message_send(input, senderId) =>
             /\ input.targetId \notin DOMAIN channels
                  => lastOp'.result # "PermissionDenied"
             /\ (input.targetId \in DOMAIN channels
                   /\ ~checkAccess(input.targetId, senderId, "write"))
                  => lastOp'.result = "PermissionDenied"
      /\ \A c \in ChannelIds, a \in Agents :
           Channel_join(c, a) =>
             /\ c \notin DOMAIN channels => lastOp'.result # "PermissionDenied"
             /\ (c \in DOMAIN channels /\ ~checkAccess(c, a, "read"))
                  => lastOp'.result = "PermissionDenied"
      /\ \A id \in MessageIds, a \in Agents :
           (Message_edit(id, EditedText, a) \/ Message_delete(id, a)) =>
             /\ id \notin DOMAIN messages => lastOp'.result # "PermissionDenied"
             /\ (id \in DOMAIN messages /\ messages[id].senderId # a)
                  => lastOp'.result = "PermissionDenied"
    ]_vars

\* a send has just ended in PermissionDenied although every channel of the
\* registry lets every agent write: the channel it named is not there
C23_Witness ==
  /\ lastOp = Result("send", "PermissionDenied")
  /\ \A c \in DOMAIN channels, a \in Agents : checkAccess(c, a, "write")
  /\ DOMAIN channels # {}

\* the same with the send to an absent channel left out: join, edit and
\* delete answer false for an absent target and PermissionDenied for a
\* present one the agent may not touch, and send answers PermissionDenied
\* for a present channel the sender may not write to
FailureOutcomesApartFromAbsentChannelSend ==
  [][ /\ \A input \in FailureSendInputs, senderId \in Agents :
           (Message_send(input, senderId) /\ input.targetId \in DOMAIN channels
              /\ ~checkAccess(input.targetId, senderId, "write"))
             => lastOp'.result = "PermissionDenied"
      /\ \A c \in ChannelIds, a \in Agents :
           Channel_join(c, a) =>
             /\ c \notin DOMAIN channels => lastOp'.result = "false"
             /\ (c \in DOMAIN channels /\ ~checkAccess(c, a, "read"))
                  => lastOp'.result = "PermissionDenied"
      /\ \A id \in MessageIds, a \in Agents :
           (Message_edit(id, EditedText, a) \/ Message_delete(id, a)) =>
             /\ id \notin DOMAIN messages => lastOp'.result = "false"
             /\ (id \in DOMAIN messages /\ messages[id].senderId # a)
                  => lastOp'.result = "PermissionDenied"
    ]_vars

\* ===================================================================
\* SpecTyping: typing indicators of one agent, their timers and the checker
\* ===================================================================
TypingChannels == {channelIdOf(1), channelIdOf(2)}

NextTyping ==
  \/ now = 0 /\ Presence_connect("a1")
  \/ now = 0 /\ Presence_startActivity("a1")
  \/ Presence_disconnect("a1")
  \/ \E c \in TypingChannels, isTyping \in BOOLEAN : Presence_setTyping("a1", c, isTyping)
  \/ \E handle \in timeouts : Presence_typingTimeout(handle)
  \* of two callbacks due at the same instant the typing timeout runs first
  \/ (\A handle \in timeouts : handle.due > now) /\ Presence_checker
  \/ now < MaxTypingTicks * TypingStep /\ TypingTick

SpecTyping == Init /\ [][NextTyping]_vars

\* C26: the auto-clear armed by setTyping(A, C, true) fires no later than
\* 10 s after the call, and when it fires with no presence call made for A
\* in between, A has isTyping false and no typingInChannel, and a
\* typing-stop frame for C has been handed to the relay.
C26_TypingAutoClear ==
  /\ [](\A handle \in timeouts : handle.due >= now)
  /\ [][ \A handle \in timeouts :
           (Presence_typingTimeout(handle)
              /\ quiet[handle.agentId] = now - TYPING_TIMEOUT)
             => /\ handle.agentId \in DOMAIN presences'
                /\ ~presences'[handle.agentId].isTyping
                /\ presences'[handle.agentId].typingInChannel = None
                /\ relayCalls' = {Call("broadcastToChannel", handle.channelId,
                                       typingFrame(handle.agentId, handle.channelId, FALSE))}
       ]_vars

\* the auto-clear has just fired 10 s after a setTyping(true) that was the
\* agent's last call; the checker had removed the record in between, and
\* the callback returned false without a typing-stop frame
C26_Witness ==
  /\ lastOp = Result("typingTimeout", "false")
  /\ quiet["a1"] = now - TYPING_TIMEOUT
  /\ "a1" \notin DOMAIN presences
  /\ timeouts = {}
  /\ relayCalls = {}

\* the auto-clear does what C26 says whenever the record is still there
\* when it fires
TypingAutoClearWhileRecordKept ==
  [][ \A handle \in timeouts :
        (Presence_typingTimeout(handle) /\ handle.agentId \in DOMAIN presences)
          => /\ ~presences'[handle.agentId].isTyping
             /\ presences'[handle.agentId].typingInChannel = None
             /\ typingTimers[timerKey(handle.agentId, handle.channelId)] = handle
             /\ relayCalls' = {Call("broadcastToChannel", handle.channelId,
                                    typingFrame(handle.agentId, handle.channelId, FALSE))}
    ]_vars

\* the pending auto-clear timeouts of a key
PendingFor(pending, agentId, channelId) ==
  {h \in pending : h.agentId = agentId /\ h.channelId = channelId}

RegistryNames == {"general", "ops"}

NextRegistry ==
  \/ \E name \in RegistryNames :
       (nextChannelId <= MaxChannels \/ nameTaken(nameIndex, name))
         /\ Channel_create(name, "public", "a1")
  \/ \E c \in ChannelIds, a \in Agents : Channel_join(c, a)
  \/ \E c \in ChannelIds, updates \in MetadataUpdates : Channel_update(c, updates)
  \/ \E c \in ChannelIds : Channel_delete(c)

SpecRegistry == Init /\ [][NextRegistry]_vars

\* C28: no two channels of the registry share a name, and a create with a
\* name that a channel of the registry has answers AlreadyExists and leaves
\* the channel table, the name index and the memberships as they were.
C28_NamesAreUnique ==
  /\ [](\A c1, c2 \in DOMAIN channels :
          channels[c1].name = channels[c2].name => c1 = c2)
  /\ [][ \A name \in RegistryNames :
           (Channel_create(name, "public", "a1")
              /\ \E c \in DOMAIN channels : channels[c].name = name)
             => /\ lastOp' = Result("create", "AlreadyExists")
                /\ UNCHANGED <<channels, nameIndex, memberships>>
       ]_vars

\* a create has just been refused while general, with both agents as
\* members, and a second channel are in the registry
C28_Witness ==
  /\ lastOp = Result("create", "AlreadyExists")
  /\ channelIdOf(1) \in DOMAIN channels
  /\ channels[channelIdOf(1)].name = "general"
  /\ memberships[channelIdOf(1)] = Agents
  /\ Cardinality(DOMAIN channels) = 2

\* C29: a delete of a channel of the registry removes the channel, its
\* membership set and its name-index entry, so that getById and getByName
\* find nothing, getMembers is empty and a create with that name is not
\* refused; and for a channel that is not in the registry checkAccess is
\* false for every agent and level.
C29_DeleteRemovesEverything ==
  /\ [][ \A c \in ChannelIds :
           (Channel_delete(c) /\ c \in DOMAIN channels)
             => /\ lastOp' = Result("deleteChannel", "true")
                /\ channelGetById(channels', c) = {}
                /\ getByName(channels', nameIndex', channels[c].name) = {}
                /\ getMembers(memberships', c) = {}
                /\ c \notin DOMAIN memberships'
                /\ ~nameTaken(nameIndex', channels[c].name)
       ]_vars
  /\ [](\A c \in ChannelIds :
          c \notin DOMAIN channels =>
            \A a \in Agents, level \in Levels : ~checkAccess(c, a, level))
  /\ [](\A c \in ChannelIds, name \in RegistryNames :
          (c \notin DOMAIN channels /\ name \notin {channels[d].name : d \in DOMAIN channels})
            => /\ c \notin DOMAIN memberships
               /\ ~nameTaken(nameIndex, name))

\* general, which both agents had joined, was deleted and a channel named
\* general has just been created again: it has a fresh id and no members
C29_Witness ==
  /\ lastOp = Result("create", "ok")
  /\ channelIdOf(1) \notin DOMAIN channels
  /\ getByName(channels, nameIndex, "general") = {channels[channelIdOf(3)]}
  /\ getMembers(memberships, channelIdOf(3)) = {}
  /\ getMembers(memberships, channelIdOf(1)) = {}
  /\ \A a \in Agents : ~checkAccess(channelIdOf(1), a, "read")

\* ===================================================================
\* SpecInbound: raw frames arriving on registered and unregistered sockets
\* ===================================================================
RawFrames == {"{", "null", "7", "{}", "{\"type\":\"bogus\"}"}

NextInbound ==
  \/ \E s \in Sockets : Relay_handleConnection(s)
  \/ \E s \in Sockets : Relay_agentConnected(s, "a1", None)
  \/ \E s \in Sockets : Relay_channelJoined(s, "a1", General, None)
  \/ \E s \in Sockets : Relay_closing(s)
  \/ nextAckId <= MaxAckCalls /\ Relay_sendWithAck("a1", ACK_TIMEOUT)
  \/ \E s \in Sockets, raw \in RawFrames : Relay_message(s, raw)

SpecInbound == Init /\ [][NextInbound]_vars

\* C30: a raw frame that is not valid JSON, arriving on an open connection,
\* is answered with one INVALID_FORMAT error frame, and one whose type is
\* not a known one with one UNKNOWN_TYPE error frame; the frame is written
\* to the socket it came from and to no other, the socket stays open, and
\* the connection map, the subscription sets and the pending-ack table
\* stay as they were.
C30_BadFrameAnswered ==
  [][ \A s \in Sockets, raw \in RawFrames :
        (Relay_message(s, raw) /\ wsState[s] = "open")
          => /\ ~jsonParse(raw).ok => lastOp'.result = "INVALID_FORMAT"
             /\ (jsonParse(raw).kind = "object"
                   /\ jsonParse(raw).type \notin {"event", "message", "presence", "ack"})
                  => lastOp'.result = "UNKNOWN_TYPE"
             /\ wire' = SetToBag({[to |-> None, socket |-> s,
                                   frame |-> [type |-> "error", code |-> lastOp'.result]]})
             /\ wsState' = wsState
             /\ UNCHANGED <<connections, subscriptions, pendingAcks>>
    ]_vars

\* the agent is registered on the second socket, subscribed, and awaited by
\* a sendWithAck; a frame of unknown type has just arrived on the first,
\* open socket and the error frame went to that socket alone
C30_Witness ==
  /\ lastOp = Result("message", "UNKNOWN_TYPE")
  /\ wsState = [s \in Sockets |-> "open"]
  /\ "a1" \in DOMAIN connections /\ connections["a1"] = 2
  /\ General \in DOMAIN subscriptions /\ subscriptions[General] = {"a1"}
  /\ DOMAIN pendingAcks # {}
  /\ wire = SetToBag({[to |-> None, socket |-> 1,
                       frame |-> [type |-> "error", code |-> "UNKNOWN_TYPE"]]})

\* ===================================================================
\* SpecExpiry: AuthService built with a token lifetime, then generateToken.
\* Lifetimes and clock values of this specification are whole seconds, the
\* unit of the JWT's iat and exp: tokenExpiry is 1000 times the lifetime.
\* ===================================================================
DAY_SECONDS == 24 * 60 * 60

\* the hard cap the token lifetime is measured against
HardCapSeconds == 30 * DAY_SECONDS

\* constructor: tokenExpiry || DEFAULT_TOKEN_EXPIRY, in seconds
configuredLifetime(lifetime) ==
  IF lifetime = 0 THEN DEFAULT_TOKEN_EXPIRY \div 1000 ELSE lifetime

\* generateToken of a service built with the lifetime: expiresAt is
\* now + tokenExpiry and the JWT expires tokenExpiry / 1000 s after iat
generateTokenFor(lifetime, agentId, permissions, t) ==
  [ form        |-> "jwt",
    signedWith  |-> "secret",
    agentId     |-> agentId,
    permissions |-> permissions,
    iat         |-> t,
    exp         |-> t + configuredLifetime(lifetime) ]

Lifetimes == {0, 3600, DAY_SECONDS, 30 * DAY_SECONDS, 30 * DAY_SECONDS + 1, 31 * DAY_SECONDS}

ExpiryInputs ==
  {[fn |-> "generateToken?", lifetime |-> l, agentId |-> a, permissions |-> ps,
    at |-> t, token |-> NoToken] :
      l \in Lifetimes, a \in Agents, ps \in PermissionSets, t \in 0 .. MaxIssued}

Auth_generateToken ==
  /\ permQuery.fn = "generateToken?"
  /\ permQuery' = [permQuery EXCEPT
                     !.fn = "generateToken",
                     !.token = generateTokenFor(permQuery.lifetime, permQuery.agentId,
                                                permQuery.permissions, permQuery.at)]
  /\ lastOp' = Result("generateToken", "ok")
  /\ Silent
  /\ UNCHANGED <<now, chanVars, relayVars, msgVars, presVars, authVars, ackVars>>

InitExpiry ==
  /\ InitServices
  /\ permQuery \in ExpiryInputs

NextExpiry == Auth_generateToken

SpecExpiry == InitExpiry /\ [][NextExpiry]_vars

\* C31: generateToken of a service whose lifetime exceeds 30 days fails
\* with ExpiredConfiguration and issues no token, and every token issued
\* expires at most 30 days after it was issued.
C31_LifetimeCapped ==
  lastOp.op = "generateToken" =>
    IF configuredLifetime(permQuery.lifetime) > HardCapSeconds
    THEN lastOp.result = "ExpiredConfiguration" /\ permQuery.token = NoToken
    ELSE /\ permQuery.token # NoToken
         /\ permQuery.token.exp - permQuery.token.iat <= HardCapSeconds

\* a service built with a lifetime of 31 days has just issued a token that
\* expires 31 days after its iat
C31_Witness ==
  /\ lastOp = Result("generateToken", "ok")
  /\ permQuery.lifetime = 31 * DAY_SECONDS
  /\ permQuery.token # NoToken
  /\ permQuery.token.exp - permQuery.token.iat = 31 * DAY_SECONDS

\* what does hold: the token expires exactly the configured lifetime after
\* its iat, 24 hours when none was configured
TokenLifetimeIsConfigured ==
  lastOp.op = "generateToken" =>
    permQuery.token.exp - permQuery.token.iat =
      (IF permQuery.lifetime = 0 THEN DAY_SECONDS ELSE permQuery.lifetime)

\* ===================================================================
\* SpecIntruder: a private channel only a1 is given access to, and the
\* frames any agent may send to the relay
\* ===================================================================
WriterRule == [principal |-> "a1", principalType |-> "agent", level |-> "write"]

NextIntruder ==
  \/ nextChannelId <= MaxChannels /\ Channel_create("ops", "private", "a1")
  \/ TotalRules < MaxSendRules /\ Channel_addAccessRule(Ops, WriterRule)
  \/ \E s \in Sockets : Relay_handleConnection(s)
  \/ \E s \in Sockets, a \in Agents : Relay_agentConnected(s, a, None)
  \/ \E s \in Sockets, a \in Agents : Relay_channelJoined(s, a, Ops, None)
  \/ \E input \in ChannelSendInputs, senderId \in Agents :
       (HasRoom \/ ~sendAllowed(input, senderId)) /\ Message_send(input, senderId)

SpecIntruder == Init /\ [][NextIntruder]_vars

\* under SpecIntruder a2 never has read access to the private channel, and
\* no agent that has access loses it
IntruderNeverHasAccess ==
  /\ [] ~checkAccess(Ops, "a2", "read")
  /\ [][ \A a \in Agents : checkAccess(Ops, a, "read") => checkAccess(Ops, a, "read")' ]_vars

\* C32: a message sent to a channel through MessageService.send is written
\* only to connections of agents that have read access to the channel,
\* whatever frames the agents have sent to the relay.
C32_NoAccessNoMessage ==
  [][ lastOp'.op = "send" =>
        \A f \in BagToSet(wire') :
          f.frame.type = "message" =>
            checkAccess(messages'[f.frame.id].targetId, f.to, "read")
    ]_vars

\* a2, which has no access to the private channel, registered a socket and
\* sent a channel.joined frame for it; a1's message to the channel has just
\* been written to a2's socket
C32_Witness ==
  /\ lastOp = Result("send", "ok")
  /\ Ops \in DOMAIN channels
  /\ ~checkAccess(Ops, "a2", "read")
  /\ "a2" \in DOMAIN connections
  /\ \E f \in BagToSet(wire) :
       /\ f.to = "a2" /\ f.socket = connections["a2"]
       /\ f.frame.type = "message"
       /\ messages[f.frame.id].targetId = Ops

\* ===================================================================
\* SpecRejoin: members of the default channel that connect, close and join
\* ===================================================================
NextRejoin ==
  \/ \E a \in Agents : Channel_join(General, a)
  \/ \E a \in Agents : Channel_leave(General, a)
  \/ \E s \in Sockets : Relay_handleConnection(s)
  \/ \E s \in Sockets, a \in Agents : Relay_agentConnected(s, a, None)
  \/ \E s \in Sockets : Relay_close(s)
  \/ \E input \in OrderSendInputs :
       HasRoom /\ Message_send(input, "a1")

SpecRejoin == Init /\ [][NextRejoin]_vars

\* C33: every member of a channel that has an open registered connection
\* is subscribed to the channel in the relay.
C33_MembersAreSubscribed ==
  \A c \in DOMAIN memberships, a \in Agents :
    (a \in memberships[c] /\ Reachable(a)) => a \in Subscribers(c)

\* a2 is a member whose connection was closed and registered again; its
\* join has just answered true, and it is still not subscribed
C33_Witness ==
  /\ lastOp = Result("join", "true")
  /\ "a2" \in memberships[General]
  /\ Reachable("a2")
  /\ "a2" \notin Subscribers(General)

\* what does hold: a member stays subscribed for as long as the connection
\* it had at the time of its join stays registered, and a close is the one
\* step that takes a member's subscription away
SubscriptionLostOnlyByClose ==
  [][ \A a \in Agents :
        (a \in memberships[General] /\ a \in memberships'[General]
           /\ a \in Subscribers(General) /\ a \notin subscriptions'[General])
          => lastOp'.op = "close"
    ]_vars

\* C34: a registration binds the agent to the socket it arrived on, frames
\* for an agent are written to the socket it is bound to and to no other,
\* and the close of a socket the agent is no longer bound to keeps the
\* agent's binding, its subscriptions and its presence record, and
\* broadcasts no offline frame for it.
C34_OldCloseKeepsNewBinding ==
  /\ [](\A f \in BagToSet(wire) :
          f.to \in DOMAIN connections => f.socket = connections[f.to])
  /\ [][ \A s \in Sockets, a \in Agents :
           Relay_agentConnected(s, a, None) => connections'[a] = s ]_vars
  /\ [][ \A s \in Sockets, a \in DOMAIN connections :
           (Relay_close(s) /\ connections[a] # s /\ wsState[connections[a]] = "open")
             => /\ a \in DOMAIN connections' /\ connections'[a] = connections[a]
                /\ \A c \in DOMAIN subscriptions :
                     a \in subscriptions[c] => a \in subscriptions'[c]
                /\ a \in DOMAIN presences => a \in DOMAIN presences'
                /\ Call("broadcast", "*", presenceFrame(a, "offline")) \notin relayCalls'
       ]_vars

\* the first socket has just closed while a1, subscribed to a channel, is
\* bound to the open second socket: binding, subscription and presence
\* record are there and nothing was broadcast
C34_Witness ==
  /\ lastOp = Result("close", "void")
  /\ wsState[1] = "none" /\ wsState[2] = "open"
  /\ "a1" \in DOMAIN connections /\ connections["a1"] = 2
  /\ \E c \in DOMAIN subscriptions : "a1" \in subscriptions[c]
  /\ "a1" \in DOMAIN presences
  /\ relayCalls = {}

\* ===================================================================
\* SpecAckSource: acks arriving on the target's socket and on another one
\* ===================================================================
\* the id of the one call made, and an id no call has
SourceIds == {correlationIdOf(1), correlationIdOf(2)}

NextAckSource ==
  \/ \E s \in Sockets : Relay_handleConnection(s)
  \/ now = 0 /\ Relay_agentConnected(1, "a1", None)
  \/ Relay_close(1)
  \/ nextAckId = 1 /\ Relay_sendWithAck("a1", ACK_TIMEOUT)
  \/ \E s \in Sockets, c \in SourceIds : Relay_handleAck(s, c)
  \/ \E c \in SourceIds : Relay_ackTimeout(c)
  \/ now < MaxAckTicks * AckStep /\ Relay_tick

SpecAckSource == Init /\ [][NextAckSource]_vars

\* the socket is the one the agent is registered on
BoundTo(agentId, socket) ==
  agentId \in DOMAIN connections /\ connections[agentId] = socket

\* C35: an ack frame that arrives on a socket other than the one the target
\* of the pending sendWithAck is registered on leaves the call pending.
C35_AckOnlyFromTarget ==
  [][ \A s \in Sockets, c \in DOMAIN pendingAcks :
        (Relay_handleAck(s, c) /\ ~BoundTo(pendingAcks[c], s))
          => /\ c \in DOMAIN pendingAcks'
             /\ ackCalls'[c].settled = << >>
    ]_vars

\* a sendWithAck to a1 was written to a1's socket, the socket closed, and
\* an ack with the call's correlation id has just arrived on the one socket
\* that is open, which no agent is registered on: the call is resolved
C35_Witness ==
  /\ lastOp = Result("handleAck", "void")
  /\ wsState[1] = "none" /\ wsState[2] = "open"
  /\ connections = << >>
  /\ \E c \in DOMAIN ackCalls :
       /\ ackCalls[c].agentId = "a1"
       /\ ackCalls[c].written
       /\ ackCalls[c].settled = << [how |-> "resolve", at |-> now] >>
       /\ c \notin DOMAIN pendingAcks

\* what does hold: an ack settles the call whose correlation id it carries
\* and no other, on whichever open socket it arrives
AckSettlesItsOwnCall ==
  [][ \A s \in Sockets, c \in SourceIds :
        Relay_handleAck(s, c) =>
          /\ c \notin DOMAIN pendingAcks'
          /\ \A d \in DOMAIN pendingAcks : d # c => d \in DOMAIN pendingAcks'
    ]_vars

\* ===================================================================
\* SpecLive: one agent that calls at time 0 only, and a checker that runs
\* for ever. The clock is kept finite by rebasing: once it has reached the
\* horizon, which is more than OFFLINE_TIMEOUT plus one interval, every
\* time stamp is moved back by one interval (stamps older than that become
\* 0, which leaves them more than OFFLINE_TIMEOUT old).
\* ===================================================================
LiveHorizon == MaxLiveTicks * TimeStep

Rebased(t) ==
  IF t = NoTime THEN NoTime
  ELSE IF t < HEARTBEAT_INTERVAL THEN 0 ELSE t - HEARTBEAT_INTERVAL

Rebase ==
  /\ now >= LiveHorizon
  /\ now < nextDue
  /\ now' = now - HEARTBEAT_INTERVAL
  /\ nextDue' = nextDue - HEARTBEAT_INTERVAL
  /\ presences' = [a \in DOMAIN presences |->
                     [presences[a] EXCEPT !.lastHeartbeat = Rebased(@),
                                          !.connectedAt = Rebased(@)]]
  /\ quiet' = [a \in Agents |-> Rebased(quiet[a])]
  /\ lastOp' = Result("tick", "void")
  /\ Silent
  /\ UNCHANGED <<typingTimers, timeouts, authVars, chanVars, relayVars, msgVars, permQuery,
                 ackVars>>

LiveTick == now < LiveHorizon /\ Tick

NextLive ==
  \/ now = 0 /\ Presence_connect("a1")
  \/ \E status \in PresenceStatuses : now = 0 /\ Presence_setStatus("a1", status)
  \/ Presence_checker
  \/ LiveTick
  \/ Rebase

SpecLive ==
  /\ Init /\ [][NextLive]_vars
  /\ WF_vars(Presence_checker) /\ WF_vars(LiveTick) /\ WF_vars(Rebase)

\* C36: with the checker running for ever, a presence record of an agent
\* that makes no further call is eventually removed, whatever its status.
C36_SilentRecordRemoved ==
  ("a1" \in DOMAIN presences /\ now > 0) ~> ("a1" \notin DOMAIN presences)

\* the checker has just run on a record whose status setStatus had set to
\* offline and whose heartbeat is more than OFFLINE_TIMEOUT plus an interval
\* old: the record is still there
C36_Witness ==
  /\ lastOp = Result("checkHeartbeats", "void")
  /\ "a1" \in DOMAIN presences
  /\ presences["a1"].status = "offline"
  /\ now - presences["a1"].lastHeartbeat > OFFLINE_TIMEOUT + HEARTBEAT_INTERVAL

\* what does hold: a silent record with any other status is removed
SilentRecordRemovedUnlessOffline ==
  ("a1" \in DOMAIN presences /\ now > 0 /\ presences["a1"].status # "offline")
    ~> ("a1" \notin DOMAIN presences)

\* ===================================================================
\* Which operations refresh lastHeartbeat
\* ===================================================================
\* C37: only connect and heartbeat advance lastHeartbeat; setStatus (the
\* checker's transition to idle included), startActivity and endActivity
\* leave it unchanged.
C37_OnlyConnectAndHeartbeatStamp ==
  [][\A a \in DOMAIN presences \cap DOMAIN presences' :
       presences'[a].lastHeartbeat # presences[a].lastHeartbeat
         => \/ Presence_connect(a)
            \/ Presence_heartbeat(a)
            \/ \E s \in Sockets : Relay_agentConnected(s, a, None)]_vars

\* a1 connected at time 0 and made no call since; the checker has just set
\* it idle, and its lastHeartbeat is the instant of that checker run
C37_Witness ==
  /\ lastOp = Result("checkHeartbeats", "void")
  /\ quiet["a1"] = 0
  /\ "a1" \in DOMAIN presences
  /\ presences["a1"].status = "idle"
  /\ presences["a1"].connectedAt = 0
  /\ presences["a1"].lastHeartbeat = now
  /\ now > IDLE_TIMEOUT

\* what does hold: setTyping and the typing timers leave lastHeartbeat alone
TypingKeepsHeartbeat ==
  [][(\/ \E c \in TypingChannels, b \in BOOLEAN : Presence_setTyping("a1", c, b)
      \/ \E handle \in timeouts : Presence_typingTimeout(handle))
       => \A a \in DOMAIN presences :
            /\ a \in DOMAIN presences'
            /\ presences'[a].lastHeartbeat = presences[a].lastHeartbeat]_vars

\* and every status assignment on a record stamps lastHeartbeat with the clock
StatusCallsStampHeartbeat ==
  [][(\/ \E status \in PresenceStatuses : Presence_setStatus("a1", status)
      \/ Presence_startActivity("a1")
      \/ Presence_endActivity("a1"))
       /\ "a1" \in DOMAIN presences
       => presences'["a1"].lastHeartbeat = now]_vars

\* ===================================================================
\* A typing stop for one channel while the agent types in another
\* ===================================================================
StopsTypingIn(channelId) ==
  \/ Presence_setTyping("a1", channelId, FALSE)
  \/ \E handle \in timeouts :
       handle.agentId = "a1" /\ handle.channelId = channelId /\ Presence_typingTimeout(handle)

\* C38: while a1 types in channel C2, a typing stop for another channel C1
\* (explicit, or C1's auto-clear timer) leaves isTyping and typingInChannel
\* as they were.
C38_OtherChannelStopKeepsTyping ==
  [][\A c1, c2 \in TypingChannels :
       /\ c1 # c2
       /\ "a1" \in DOMAIN presences
       /\ presences["a1"].isTyping
       /\ presences["a1"].typingInChannel = c2
       /\ StopsTypingIn(c1)
       => /\ presences'["a1"].isTyping
          /\ presences'["a1"].typingInChannel = c2]_vars

\* the timer of ch-1 has just fired while the timer of ch-2, started later,
\* is still pending: a1 was typing in ch-2 and is now marked as not typing
C38_Witness ==
  /\ lastOp = Result("typingTimeout", "true")
  /\ "a1" \in DOMAIN presences
  /\ ~presences["a1"].isTyping
  /\ presences["a1"].typingInChannel = None
  /\ \E handle \in timeouts :
       handle.agentId = "a1" /\ handle.channelId = channelIdOf(2) /\ handle.due > now

\* what does hold: every typing stop on a record clears both fields,
\* whichever channel it names
AnyStopClearsTyping ==
  [][\A c \in TypingChannels :
       "a1" \in DOMAIN presences /\ StopsTypingIn(c)
         => /\ ~presences'["a1"].isTyping
            /\ presences'["a1"].typingInChannel = None]_vars

\* ===================================================================
\* SpecOnline: a registered agent, its connections and the checker
\* ===================================================================
Registered(agentId) == agentId \in DOMAIN agents

NextOnline ==
  \/ now = 0 /\ ~Registered("a1") /\ Agent_register("a1")
  \/ Relay_handleConnection(1)
  \/ Relay_agentConnected(1, "a1", None)
  \/ Relay_close(1)
  \/ Registered("a1") /\ Presence_connect("a1")
  \/ Registered("a1") /\ Presence_disconnect("a1")
  \/ Registered("a1") /\ Presence_heartbeat("a1")
  \/ Presence_checker
  \/ now < MaxOnlineTicks * TimeStep /\ Tick

SpecOnline == Init /\ [][NextOnline]_vars

RegistryFollowsPresence ==
  \A a \in DOMAIN agents : a \notin DOMAIN presences => agents[a].status = "offline"

\* C39: after any sequence of connection, disconnection and checker steps,
\* an agent without a presence record is offline in the agent registry,
\* also after the checker has disconnected it for timeout.
C39_NoPresenceMeansOffline == RegistryFollowsPresence

\* the checker has just run; a1 has no presence record and the registry
\* still says online
C39_Witness ==
  /\ lastOp = Result("checkHeartbeats", "void")
  /\ Registered("a1")
  /\ "a1" \notin DOMAIN presences
  /\ agents["a1"].status = "online"

\* what does hold: every step other than the checker keeps the registry in
\* line with the presence records
OnlyCheckerLeavesRegistryOnline ==
  [][RegistryFollowsPresence /\ lastOp'.op # "checkHeartbeats" => RegistryFollowsPresence']_vars

\* ===================================================================
\* SpecPaging: reading a channel page by page
\* ===================================================================
PageLimits == {1, 2}

PagingPages == {<<limit, before>> : limit \in PageLimits, before \in {None} \cup MessageIds}

NextPaging ==
  \/ HasRoom /\ Message_send([targetId |-> General, targetType |-> "channel",
                              text |-> SentText, threadId |-> None], "a1")
  \/ \E id \in MessageIds : Message_delete(id, "a1")
  \/ \E page \in PagingPages : Message_getChannelMessages(General, page[1], page[2])
  \/ now < MaxReadTicks * TimeStep /\ Tick

SpecPaging == Init /\ [][NextPaging]_vars

\* the pages a reader gets who calls getChannelMessages again and again,
\* each time with the last message of the previous page as cursor, until a
\* page comes back empty
RECURSIVE pagesFrom(_, _, _, _)
pagesFrom(channelId, limit, before, calls) ==
  LET page == getChannelMessages(channelId, limit, before)
  IN  IF calls = 0 \/ page = << >> THEN << >>
      ELSE page \o pagesFrom(channelId, limit, page[Len(page)].id, calls - 1)

Paged(channelId, limit) == pagesFrom(channelId, limit, None, MaxMsgs + 1)

LiveIn(channelId) ==
  IF channelId \in DOMAIN channelMessages
  THEN {channelMessages[channelId][i] : i \in DOMAIN channelMessages[channelId]}
         \cap {id \in DOMAIN messages : notDeleted(messages[id])}
  ELSE {}

PagedIds(channelId, limit) ==
  {Paged(channelId, limit)[i].id : i \in DOMAIN Paged(channelId, limit)}

\* C40: paging a channel returns every non-deleted message of the channel
\* exactly once, also when several messages have the same sentAt.
C40_PagingReturnsEachOnce ==
  \A limit \in PageLimits :
    /\ PagedIds(General, limit) = LiveIn(General)
    /\ Len(Paged(General, limit)) = Cardinality(LiveIn(General))

\* both messages are live in the channel and were sent at the same instant;
\* the first page of one message was msg-1, and the page read with msg-1 as
\* cursor has just come back empty
C40_Witness ==
  /\ LiveIn(General) = {messageIdOf(1), messageIdOf(2)}
  /\ messages[messageIdOf(1)].sentAt = messages[messageIdOf(2)].sentAt
  /\ getChannelMessages(General, 1, None)[1].id = messageIdOf(1)
  /\ lastOp = Answer("getChannelMessages", << General, 1, messageIdOf(1) >>, << >>)

\* what does hold: no message is returned twice, none that is deleted or in
\* another channel is returned, and nothing is missed when the live messages
\* have pairwise different sentAt
PagingNeverRepeats ==
  \A limit \in PageLimits :
    /\ PagedIds(General, limit) \subseteq LiveIn(General)
    /\ Len(Paged(General, limit)) = Cardinality(PagedIds(General, limit))

PagingCompleteForDistinctTimes ==
  (\A m1, m2 \in LiveIn(General) : m1 # m2 => messages[m1].sentAt # messages[m2].sentAt)
    => \A limit \in PageLimits : PagedIds(General, limit) = LiveIn(General)
====
